---------------------------- MODULE Spec2Model ----------------------------
(***************************************************************************)
(* A model of the catalog reconciliation and SKU synthesis engine of       *)
(* src/app.py: the matcher (run_reconciliation_check), the staging and     *)
(* upload-data generation of tabs 3 and 4, and the Cin7 family/variant     *)
(* synchronisation.                                                        *)
(*                                                                         *)
(* Text is modelled by TLA+ strings; Python's `in`, lower(), strip(),      *)
(* split() and the regular expressions are computed character by character.*)
(* Numbers read from text (pack sizes, volumes, prices) are exact decimals *)
(* [m |-> mantissa, k |-> digits after the point], i.e. m / 10^k, which is *)
(* what float() followed by str() gives for the short numerals used here.  *)
(***************************************************************************)
EXTENDS Integers, Sequences, FiniteSets, TLC

VARIABLES
    line_items,        \* st.session_state.line_items: the invoice rows
    matrix_data,       \* st.session_state.matrix_data: the product matrix
    upload_data,       \* st.session_state.upload_data: staged / generated rows
    upload_generated,  \* st.session_state.upload_generated
    st_errors,         \* the st.error messages the page shows
    shopify_store,     \* the Shopify catalog: vendor -> product list
    sheets,            \* the lookup tables of the MasterData workbook
    cin7_products,     \* the ERP's products: sequence of [ID, SKU]
    cin7_families,     \* the ERP's families: sequence of [ID, SKU, Name, Products]
    today_str,         \* datetime.now() as DDMMYYYY
    sync,              \* the position of sync_product_to_cin7 in its loops
    calc,              \* a function called on its own: its arguments and its result
    po,                \* a call of create_cin7_purchase_order: its position and requests
    http               \* a call of make_cin7_request: its attempts and its outcome

vars == <<line_items, matrix_data, upload_data, upload_generated, st_errors,
          shopify_store, sheets, cin7_products, cin7_families, today_str, sync,
          calc, po, http>>

----------------------------------------------------------------------------
(* Text helpers: Python str operations.                                    *)

UpperChars == "ABCDEFGHIJKLMNOPQRSTUVWXYZ"

LowerChars == "abcdefghijklmnopqrstuvwxyz"

DigitChars == "0123456789"

CharAt(s, i) == SubSeq(s, i, i)

\* needle in hay
Contains(hay, needle) ==
    \E i \in 1..(Len(hay) - Len(needle) + 1) :
        SubSeq(hay, i, i + Len(needle) - 1) = needle

StartsWith(s, p) == Len(s) >= Len(p) /\ SubSeq(s, 1, Len(p)) = p

\* the lower-case letter of every upper-case letter
LowerOf ==
    LET at(i) == CharAt(UpperChars, i)
    IN  [c \in { at(i) : i \in 1..26 } |->
            CharAt(LowerChars, CHOOSE i \in 1..26 : at(i) = c)]

LowerChar(c) == IF c \in DOMAIN LowerOf THEN LowerOf[c] ELSE c

RECURSIVE Lower(_)
Lower(s) ==
    IF s = "" THEN ""
    ELSE LowerChar(CharAt(s, 1)) \o Lower(SubSeq(s, 2, Len(s)))

RECURSIVE LStrip(_)
LStrip(s) ==
    IF s # "" /\ CharAt(s, 1) = " " THEN LStrip(SubSeq(s, 2, Len(s))) ELSE s

RECURSIVE RStrip(_)
RStrip(s) ==
    IF s # "" /\ CharAt(s, Len(s)) = " " THEN RStrip(SubSeq(s, 1, Len(s) - 1)) ELSE s

Strip(s) == RStrip(LStrip(s))

Digits == { CharAt(DigitChars, i) : i \in 1..10 }

IsDigit(c) == c \in Digits

DigitVal(c) == (CHOOSE i \in 1..10 : CharAt(DigitChars, i) = c) - 1

\* length of the run of digits of s that starts at position i
RECURSIVE DigitRun(_, _)
DigitRun(s, i) ==
    IF i <= Len(s) /\ IsDigit(CharAt(s, i)) THEN 1 + DigitRun(s, i + 1) ELSE 0

RECURSIVE NatOfDigits(_)
NatOfDigits(s) ==
    IF s = "" THEN 0
    ELSE 10 * NatOfDigits(SubSeq(s, 1, Len(s) - 1)) + DigitVal(CharAt(s, Len(s)))

RECURSIVE StrOfNat(_)
StrOfNat(n) ==
    IF n < 10 THEN CharAt(DigitChars, n + 1)
    ELSE StrOfNat(n \div 10) \o CharAt(DigitChars, (n % 10) + 1)

RECURSIVE Pow10(_)
Pow10(k) == IF k = 0 THEN 1 ELSE 10 * Pow10(k - 1)

----------------------------------------------------------------------------
(* Exact decimals standing for Python floats.                              *)

RECURSIVE DecNorm(_)
DecNorm(d) ==
    IF d.k > 0 /\ d.m % 10 = 0 THEN DecNorm([m |-> d.m \div 10, k |-> d.k - 1]) ELSE d

\* float.is_integer()
DecIsInteger(d) == DecNorm(d).k = 0

\* d > n for an integer n
DecGreater(d, n) == d.m > n * Pow10(d.k)

\* d / 2
DecHalf(d) == DecNorm([m |-> d.m * 5, k |-> d.k + 1])

\* d / 10
DecTenth(d) == DecNorm([m |-> d.m, k |-> d.k + 1])

\* int(d): truncation
DecInt(d) == d.m \div Pow10(d.k)

RECURSIVE ZeroPad(_, _)
ZeroPad(s, n) == IF Len(s) >= n THEN s ELSE ZeroPad("0" \o s, n)

\* str(float) of a value that is not an integer, e.g. 1.5, 35.5
DecFloatStr(d) ==
    LET n == DecNorm(d)
    IN  StrOfNat(n.m \div Pow10(n.k)) \o "." \o ZeroPad(StrOfNat(n.m % Pow10(n.k)), n.k)

\* str(int(v)) if v.is_integer() else str(v)
DecToken(d) == IF DecIsInteger(d) THEN StrOfNat(DecInt(d)) ELSE DecFloatStr(d)

\* the numeral that starts at position i of s, matched by \d+\.?\d*
NumeralAt(s, i) ==
    LET a == DigitRun(s, i)
        dot == i + a <= Len(s) /\ CharAt(s, i + a) = "."
        b == IF dot THEN DigitRun(s, i + a + 1) ELSE 0
    IN  [int |-> SubSeq(s, i, i + a - 1),
         frac |-> IF dot THEN SubSeq(s, i + a + 1, i + a + b) ELSE "",
         len |-> a + (IF dot THEN 1 + b ELSE 0)]

\* float() of a numeral
NumeralValue(n) == DecNorm([m |-> NatOfDigits(n.int \o n.frac), k |-> Len(n.frac)])

\* float(s) succeeds: s is one plain numeral (the only numerals the model feeds it)
IsFloat(s) == s # "" /\ IsDigit(CharAt(s, 1)) /\ NumeralAt(s, 1).len = Len(s)

FloatOf(s) == NumeralValue(NumeralAt(s, 1))

----------------------------------------------------------------------------
(* The matcher: normalize_vol_string and run_reconciliation_check.          *)

\* Python's None
None == "<None>"

\* position of the first digit of s at or after i, 0 if there is none
RECURSIVE FirstDigit(_, _)
FirstDigit(s, i) ==
    IF i > Len(s) THEN 0
    ELSE IF IsDigit(CharAt(s, i)) THEN i ELSE FirstDigit(s, i + 1)

normalize_vol_string(v_str) ==
    IF v_str = "" THEN "0"
    ELSE LET v == Lower(Strip(v_str))
             p == FirstDigit(v, 1)
         IN  IF p = 0 THEN "0"
             ELSE LET val == NumeralValue(NumeralAt(v, p))
                  IN  DecToken(IF Contains(v, "ml") THEN DecTenth(val) ELSE val)

\* lines 936-946: the pack token the variants are matched against
PackVal(row) ==
    LET raw_pack == Strip(row.Pack_Size)
    IN  IF IsFloat(raw_pack) THEN FloatOf(raw_pack) ELSE [m |-> 1, k |-> 0]

InvPack(row) ==
    LET pack_val == PackVal(row)
    IN  IF row.Use_Split /\ DecGreater(pack_val, 1)
        THEN DecToken(DecHalf(pack_val))
        ELSE DecToken(pack_val)

\* lines 959-963: the product name inside a "vendor / product / ..." title
RECURSIVE FindChar(_, _, _)
FindChar(s, c, i) ==
    IF i > Len(s) THEN 0
    ELSE IF CharAt(s, i) = c THEN i ELSE FindChar(s, c, i + 1)

ShopProdNameClean(title) ==
    LET a == FindChar(title, "/", 1)
    IN  IF a = 0 THEN title
        ELSE LET b == FindChar(title, "/", a + 1)
             IN  Strip(SubSeq(title, a + 1, IF b = 0 THEN Len(title) ELSE b - 1))

\* fuzz.token_sort_ratio(inv_prod_name, shop_prod_name_clean): the library's
\* similarity, 0..100, which the catalog snapshot carries per invoice name
token_sort_ratio(inv_prod_name, prod) == prod.ratio[inv_prod_name]

\* lines 964-965
Score(inv_prod_name, prod) ==
    token_sort_ratio(inv_prod_name, prod)
    + (IF Contains(Lower(ShopProdNameClean(prod.title)), Lower(inv_prod_name))
       THEN 10 ELSE 0)

\* line 966
KeepThreshold == 40

\* line 972
ScoreFloor == 75

\* lines 956-966: (score, prod) of every candidate scoring above 40, in input order
RECURSIVE ScoredCandidates(_, _)
ScoredCandidates(inv_prod_name, candidates) ==
    IF candidates = <<>> THEN <<>>
    ELSE LET prod == Head(candidates)
             score == Score(inv_prod_name, prod)
             rest == ScoredCandidates(inv_prod_name, Tail(candidates))
         IN  IF score > KeepThreshold
             THEN <<[score |-> score, prod |-> prod]>> \o rest
             ELSE rest

\* the scan without line 968: the candidates are left in catalog order
UnsortedCandidates(s) == s

\* an insertion that puts a candidate before those of equal score
RECURSIVE InsertBeforeEqual(_, _)
InsertBeforeEqual(x, sorted) ==
    IF sorted = <<>> THEN <<x>>
    ELSE IF Head(sorted).score > x.score
         THEN <<Head(sorted)>> \o InsertBeforeEqual(x, Tail(sorted))
         ELSE <<x>> \o sorted

\* line 968: list.sort(key=score, reverse=True), which is stable
RECURSIVE InsertByScore(_, _)
InsertByScore(x, sorted) ==
    IF sorted = <<>> THEN <<x>>
    ELSE IF Head(sorted).score >= x.score
         THEN <<Head(sorted)>> \o InsertByScore(x, Tail(sorted))
         ELSE <<x>> \o sorted

RECURSIVE SortByScoreDesc(_)
SortByScoreDesc(s) ==
    IF s = <<>> THEN <<>>
    ELSE InsertByScore(s[Len(s)], SortByScoreDesc(SubSeq(s, 1, Len(s) - 1)))

\* lines 982-984: the keg family flags of the invoice format
IsPolyInv(inv_fmt) ==
    Contains(inv_fmt, "poly") \/ Contains(inv_fmt, "dolium") \/ Contains(inv_fmt, "pet")

IsKeyInv(inv_fmt) == Contains(inv_fmt, "keykeg")

IsSteelInv(inv_fmt) == Contains(inv_fmt, "steel") \/ Contains(inv_fmt, "stainless")

\* lines 986-988: the keg family flags of the candidate's Keg_Type metafield
IsPolyShop(shop_keg_val) == Contains(shop_keg_val, "poly") \/ Contains(shop_keg_val, "dolium")

IsKeyShop(shop_keg_val) == Contains(shop_keg_val, "keykeg")

IsSteelShop(shop_keg_val) ==
    Contains(shop_keg_val, "steel") \/ Contains(shop_keg_val, "stainless")

\* lines 973-997: the format-compatibility filter
IsCompatible(inv_fmt, prod) ==
    LET shop_format_str == Lower(prod.format_meta \o " " \o Lower(prod.title))
        shop_keg_val == Lower(prod.keg_meta)
    IN  IF Contains(inv_fmt, "keg")
        THEN /\ ~(IsPolyInv(inv_fmt) /\ (IsKeyShop(shop_keg_val) \/ IsSteelShop(shop_keg_val)))
             /\ ~(IsKeyInv(inv_fmt) /\ (IsPolyShop(shop_keg_val) \/ IsSteelShop(shop_keg_val)))
             /\ ~(IsSteelInv(inv_fmt) /\ (IsPolyShop(shop_keg_val) \/ IsKeyShop(shop_keg_val)))
        ELSE IF Contains(inv_fmt, "cask") \/ Contains(inv_fmt, "firkin")
             THEN ~(Contains(shop_format_str, "keg") /\ ~Contains(shop_format_str, "cask"))
             ELSE TRUE

\* lines 1003-1007
PackOk(inv_pack, v_title) ==
    IF inv_pack = "1"
    THEN ~Contains(v_title, " x ")
    ELSE Contains(v_title, inv_pack \o " x") \/ Contains(v_title, inv_pack \o "x")

\* line 1009 alone: the token is a substring of the title
VolOkSubstringOnly(inv_vol, v_title) == Contains(v_title, inv_vol)

\* lines 1008-1014
VolOk(inv_vol, v_title) ==
    \/ Contains(v_title, inv_vol)
    \/ Len(inv_vol) = 2 /\ Contains(v_title, inv_vol \o "0")
    \/ inv_vol = "9" /\ Contains(v_title, "firkin")
    \/ inv_vol \in {"4", "4.5"} /\ Contains(v_title, "pin")
    \/ inv_vol \in {"40", "41"} /\ Contains(v_title, "firkin")
    \/ inv_vol \in {"20", "21"} /\ Contains(v_title, "pin")

\* lines 999-1016: does the variant pass the pack and the volume check
VariantOk(inv_pack, inv_vol, variant) ==
    LET v_title == Lower(variant.title)
    IN  PackOk(inv_pack, v_title) /\ VolOk(inv_vol, v_title)

\* lines 999-1028: index of the first passing variant at or after j, 0 if none
RECURSIVE FirstVariant(_, _, _, _)
FirstVariant(inv_pack, inv_vol, variants, j) ==
    IF j > Len(variants) THEN 0
    ELSE IF VariantOk(inv_pack, inv_vol, variants[j]) THEN j
         ELSE FirstVariant(inv_pack, inv_vol, variants, j + 1)

\* line 972 written as "if score <= 75: continue"
PassesFloorStrict(score) == ~(score <= ScoreFloor)

\* line 972: the candidate passes the score floor
PassesFloor(score) == ~(score < ScoreFloor)

\* lines 971-1029: the scan over the sorted candidates; the (candidate, variant)
\* indices of the match, <<0, 0>> if there is none
RECURSIVE ScanCandidates(_, _, _, _, _)
ScanCandidates(inv_fmt, inv_pack, inv_vol, scored, i) ==
    IF i > Len(scored) THEN <<0, 0>>
    ELSE LET c == scored[i]
             j == FirstVariant(inv_pack, inv_vol, c.prod.variants, 1)
         IN  IF PassesFloor(c.score) /\ IsCompatible(inv_fmt, c.prod) /\ j # 0
             THEN <<i, j>>
             ELSE ScanCandidates(inv_fmt, inv_pack, inv_vol, scored, i + 1)

StatusMatch == "Match"

StatusUnmatched == "Check and Upload"

StatusVendorNotFound == "Vendor Not Found"

StatusPending == "Pending"

\* lines 286-298: get_cin7_product_id, the ERP's GET /product?Sku=...
RECURSIVE get_cin7_product_id(_, _)
get_cin7_product_id(products, sku) ==
    IF products = <<>> THEN None
    ELSE IF Head(products).SKU = sku THEN Head(products).ID
         ELSE get_cin7_product_id(Tail(products), sku)

\* lines 914-924: the per-supplier cache; a supplier is fetched when it is a
\* non-blank string, and the fetch (lines 368-398) gives [] for an unknown vendor
IsCached(supplier) == Strip(supplier) # ""

FetchShopifyProductsByVendor(store, vendor) ==
    IF vendor \in DOMAIN store THEN store[vendor] ELSE <<>>

\* lines 1016-1028: the SKUs derived from the matched variant
BaseSku(variant) ==
    LET v_sku == Strip(variant.sku)
    IN  IF v_sku # "" /\ Len(v_sku) > 2 THEN SubSeq(v_sku, 3, Len(v_sku)) ELSE ""

LocationSku(prefix, variant) ==
    IF BaseSku(variant) = "" THEN "" ELSE prefix \o BaseSku(variant)

MatchedProdName(full_title) ==
    IF StartsWith(full_title, "L-") \/ StartsWith(full_title, "G-")
    THEN SubSeq(full_title, 3, Len(full_title))
    ELSE full_title

\* the row status without line 1030: a row that found no match keeps line 928's status
RowStatusNoUnmatched(candidates, found) ==
    IF found THEN StatusMatch ELSE StatusVendorNotFound

\* lines 928, 954, 1018, 1030: the status of the row
RowStatus(candidates, found) ==
    IF candidates = <<>> THEN StatusVendorNotFound
    ELSE IF found THEN StatusMatch ELSE StatusUnmatched

\* lines 927-1043: one iteration of the row loop
ReconcileRow(row, store, products) ==
    LET supplier == row.Supplier_Name
        inv_pack == InvPack(row)
        inv_vol == normalize_vol_string(row.Volume)
        inv_fmt == Lower(row.Format)
        candidates == IF IsCached(supplier)
                      THEN FetchShopifyProductsByVendor(store, supplier)
                      ELSE <<>>
        scored == SortByScoreDesc(ScoredCandidates(row.Product_Name, candidates))
        hit == ScanCandidates(inv_fmt, inv_pack, inv_vol, scored, 1)
        found == hit[1] # 0
        prod == scored[hit[1]].prod
        variant == prod.variants[hit[2]]
        london_sku == IF found THEN LocationSku("L-", variant) ELSE ""
        glou_sku == IF found THEN LocationSku("G-", variant) ELSE ""
    IN  [row EXCEPT
            !.Shopify_Status = RowStatus(candidates, found),
            !.Matched_Product = IF found THEN MatchedProdName(prod.title) ELSE "",
            !.Matched_Variant = IF found THEN variant.title ELSE "",
            !.London_SKU = london_sku,
            !.Cin7_London_ID = IF london_sku # ""
                               THEN get_cin7_product_id(products, london_sku) ELSE "",
            !.Gloucester_SKU = glou_sku,
            !.Cin7_Glou_ID = IF glou_sku # ""
                             THEN get_cin7_product_id(products, glou_sku) ELSE ""]

\* lines 896-1045
run_reconciliation_check(lines_df, store, products) ==
    [i \in 1..Len(lines_df) |-> ReconcileRow(lines_df[i], store, products)]

----------------------------------------------------------------------------
(* create_product_matrix.                                                  *)

\* a column the frame does not have
Absent == "<absent>"

EmptySlot ==
    [Format |-> "", Pack_Size |-> "", Volume |-> "", Item_Price |-> "", Split_Case |-> FALSE]

\* line 1151
GroupKey(row) == <<row.Supplier_Name, row.Collaborator, row.Product_Name, row.ABV>>

\* line 1148
Unmatched(df) == SelectSeq(df, LAMBDA row : row.Shopify_Status # StatusMatch)

\* line 1152: the group keys in order of first appearance (sort=False)
RECURSIVE GroupKeys(_)
GroupKeys(df) ==
    IF df = <<>> THEN <<>>
    ELSE LET before == GroupKeys(SubSeq(df, 1, Len(df) - 1))
             key == GroupKey(df[Len(df)])
         IN  IF \E i \in 1..Len(before) : before[i] = key THEN before
             ELSE Append(before, key)

\* lines 1163-1173: the format slot of one invoice row
SlotOf(item) ==
    [Format |-> item.Format, Pack_Size |-> item.Pack_Size, Volume |-> item.Volume,
     Item_Price |-> item.Item_Price, Split_Case |-> item.Use_Split]

\* line 1164: at most three format slots per matrix row
MaxSlots == 3

\* lines 1155-1175: the matrix row of one group
MatrixRow(key, df) ==
    LET group == SelectSeq(df, LAMBDA row : GroupKey(row) = key)
    IN  [Supplier_Name |-> key[1], Type |-> "Beer", Collaborator |-> key[2],
         Product_Name |-> key[3], ABV |-> key[4], Untappd_Status |-> "",
         Untappd_Brewery |-> Absent, Untappd_Product |-> Absent, Untappd_ABV |-> Absent,
         Untappd_Style |-> Absent, Untappd_Desc |-> Absent,
         slots |-> [i \in 1..MaxSlots |->
                        IF i <= Len(group) THEN SlotOf(group[i]) ELSE EmptySlot]]

\* lines 1143-1204
create_product_matrix(df) ==
    LET rest == Unmatched(df)
        keys == GroupKeys(rest)
    IN  [g \in 1..Len(keys) |-> MatrixRow(keys[g], rest)]

----------------------------------------------------------------------------
(* stage_products_for_upload and the "Validate & Stage for Upload" button. *)

\* dict.get(key, default)
Get(map, key, default) == IF key \in DOMAIN map THEN map[key] ELSE default

\* ', '.join(names)
RECURSIVE Join(_)
Join(names) ==
    IF names = <<>> THEN ""
    ELSE IF Len(names) = 1 THEN names[1]
         ELSE names[1] \o ", " \o Join(Tail(names))

\* line 1224
Required ==
    <<"Untappd_Brewery", "Untappd_Product", "Untappd_ABV", "Untappd_Style", "Untappd_Desc">>

Field(row, name) ==
    CASE name = "Untappd_Brewery" -> row.Untappd_Brewery
      [] name = "Untappd_Product" -> row.Untappd_Product
      [] name = "Untappd_ABV" -> row.Untappd_ABV
      [] name = "Untappd_Style" -> row.Untappd_Style
      [] name = "Untappd_Desc" -> row.Untappd_Desc

\* line 1228
MissingCols(row) == SelectSeq(Required, LAMBDA c : Field(row, c) = Absent)

\* line 1232
MissingVals(row) == SelectSeq(Required, LAMBDA c : Strip(Field(row, c)) = "")

\* lines 1228-1235: the error of matrix row idx (0-based), "" if it is complete
RowError(row, idx) ==
    IF MissingCols(row) # <<>>
    THEN "Row " \o StrOfNat(idx + 1) \o ": Missing columns. Please run Search in Tab 2 first."
    ELSE IF MissingVals(row) # <<>>
         THEN "Row " \o StrOfNat(idx + 1) \o ": Empty fields for " \o Join(MissingVals(row))
                  \o ". Please edit manually in Tab 3."
         ELSE ""

\* line 1242: the slot holds a format
SlotUsed(slot) ==
    LET fmt_val == Strip(slot.Format)
    IN  fmt_val # "" /\ Lower(fmt_val) \notin {"nan", "none"}

\* lines 1244-1264
StagedRow(row, slot) ==
    [untappd_brewery |-> row.Untappd_Brewery, collaborator |-> row.Collaborator,
     untappd_product |-> row.Untappd_Product, untappd_abv |-> row.Untappd_ABV,
     untappd_style |-> row.Untappd_Style, description |-> row.Untappd_Desc,
     format |-> Strip(slot.Format), pack_size |-> slot.Pack_Size, volume |-> slot.Volume,
     item_price |-> slot.Item_Price, is_split_case |-> slot.Split_Case,
     Family_SKU |-> "", Variant_SKU |-> "", Family_Name |-> "", Variant_Name |-> "",
     Weight |-> "0.0", Keg_Connector |-> "", Attribute_5 |-> "Rotational Product",
     Sales_Price |-> Absent, Type |-> row.Type]

\* lines 1238-1265: the staged rows of one complete matrix row
RECURSIVE StagedSlots(_, _)
StagedSlots(row, i) ==
    IF i > MaxSlots THEN <<>>
    ELSE (IF SlotUsed(row.slots[i]) THEN <<StagedRow(row, row.slots[i])>> ELSE <<>>)
         \o StagedSlots(row, i + 1)

\* lines 1220-1266: [rows, errors] over the matrix rows from position i on
RECURSIVE StageFrom(_, _)
StageFrom(matrix_df, i) ==
    IF i > Len(matrix_df) THEN [rows |-> <<>>, errors |-> <<>>]
    ELSE LET rest == StageFrom(matrix_df, i + 1)
             err == RowError(matrix_df[i], i - 1)
         IN  IF err # ""
             THEN [rows |-> rest.rows, errors |-> <<err>> \o rest.errors]
             ELSE [rows |-> StagedSlots(matrix_df[i], 1) \o rest.rows, errors |-> rest.errors]

stage_products_for_upload(matrix_df) == StageFrom(matrix_df, 1)

----------------------------------------------------------------------------
(* calculate_sell_price, generate_sku_parts and "Generate Upload Data".    *)

UpperChar(c) ==
    IF \E i \in 1..26 : CharAt(LowerChars, i) = c
    THEN CharAt(UpperChars, CHOOSE i \in 1..26 : CharAt(LowerChars, i) = c)
    ELSE c

IsAlnumOrSpace(c) ==
    \/ c = " "
    \/ IsDigit(c)
    \/ \E i \in 1..26 : CharAt(LowerChars, i) = c \/ CharAt(UpperChars, i) = c

\* line 1207: re.sub(r'[^a-zA-Z0-9\s]', '', name).upper()
RECURSIVE CleanName(_)
CleanName(name) ==
    IF name = "" THEN ""
    ELSE (IF IsAlnumOrSpace(CharAt(name, 1)) THEN UpperChar(CharAt(name, 1)) ELSE "")
         \o CleanName(SubSeq(name, 2, Len(name)))

\* line 1208: str.split()
RECURSIVE Words(_)
Words(text) ==
    LET t == LStrip(text)
        sp == FindChar(t, " ", 1)
    IN  IF t = "" THEN <<>>
        ELSE IF sp = 0 THEN <<t>>
             ELSE <<SubSeq(t, 1, sp - 1)>> \o Words(SubSeq(t, sp + 1, Len(t)))

\* s[:n]
Prefix(s, n) == SubSeq(s, 1, IF Len(s) < n THEN Len(s) ELSE n)

\* s.ljust(4, 'X')[:4]
RECURSIVE PadX(_)
PadX(s) == IF Len(s) >= 4 THEN SubSeq(s, 1, 4) ELSE PadX(s \o "X")

\* a code that takes first letters from three words on
SkuPartsFromThreeWords(product_name) ==
    LET words == Words(CleanName(product_name))
    IN  IF words = <<>> THEN "XXXX"
        ELSE IF Len(words) >= 3
             THEN PadX(Prefix(words[1], 1) \o Prefix(words[2], 1) \o Prefix(words[3], 1)
                           \o (IF Len(words) >= 4 THEN Prefix(words[4], 1) ELSE ""))
             ELSE IF Len(words) >= 2
                  THEN PadX(Prefix(words[1], 2) \o Prefix(words[2], 2))
                  ELSE PadX(Prefix(words[1], 2) \o "XX")

\* lines 1206-1218
generate_sku_parts(product_name) ==
    LET words == Words(CleanName(product_name))
    IN  IF words = <<>> THEN "XXXX"
        ELSE IF Len(words) >= 4
             THEN Prefix(words[1], 1) \o Prefix(words[2], 1) \o Prefix(words[3], 1)
                      \o Prefix(words[4], 1)
             ELSE IF Len(words) >= 2
                  THEN PadX(Prefix(words[1], 2) \o Prefix(words[2], 2))
                  ELSE PadX(Prefix(words[1], 2) \o "XX")

DecOf(n) == [m |-> n, k |-> 0]

DecMul(a, b) == DecNorm([m |-> a.m * b.m, k |-> a.k + b.k])

DecAdd(a, b) ==
    LET k == IF a.k > b.k THEN a.k ELSE b.k
    IN  DecNorm([m |-> a.m * Pow10(k - a.k) + b.m * Pow10(k - b.k), k |-> k])

\* d < n for an integer n
DecLess(d, n) == d.m < n * Pow10(d.k)

\* round(d, 2) of the float that stands for d.  A float that is exactly half way
\* between two cents (a multiple of 1/8) goes to the even cent; any other value
\* half way between two cents has no exact float, and tie_up tells whether its
\* float lies above the half
DecRound2(d, tie_up) ==
    IF d.k <= 2 THEN DecNorm(d)
    ELSE LET unit == Pow10(d.k - 2)
             q == d.m \div unit
             r == d.m % unit
             exact == (8 * d.m) % Pow10(d.k) = 0
             up == \/ 2 * r > unit
                   \/ 2 * r = unit /\ (IF exact THEN q % 2 = 1 ELSE tie_up)
         IN  DecNorm([m |-> IF up THEN q + 1 ELSE q, k |-> 2])

\* line 79
DraftTriggers == {"keykeg", "steel", "poly", "uni", "cask", "keg", "firkin", "pin"}

\* lines 72-84 with the draft boundaries included in the flat markups
SellPriceInclusive(cost, product_type, fmt, tie_up) ==
    LET is_draft == \E t \in DraftTriggers : Contains(Lower(fmt), t)
    IN  IF cost.m = 0 THEN DecOf(0)
        ELSE IF is_draft /\ ~DecLess(cost, 140)
        THEN DecRound2(DecAdd(cost, DecOf(40)), tie_up)
        ELSE IF is_draft /\ ~DecGreater(cost, 63)
        THEN DecRound2(DecAdd(cost, DecOf(20)), tie_up)
        ELSE IF product_type = "Core Product"
             THEN DecRound2(DecMul(cost, [m |-> 1265, k |-> 3]), tie_up)
             ELSE DecRound2(DecMul(cost, [m |-> 1285, k |-> 3]), tie_up)

\* lines 72-84; cost is the float of the price cell, tie_up the side on which
\* the float of a result half way between two cents lies
calculate_sell_price(cost, product_type, fmt, tie_up) ==
    LET fmt_lower == Lower(fmt)
        is_draft == \E t \in DraftTriggers : Contains(fmt_lower, t)
    IN  IF cost.m = 0 THEN DecOf(0)
        ELSE IF is_draft /\ DecGreater(cost, 140) THEN DecRound2(DecAdd(cost, DecOf(40)), tie_up)
        ELSE IF is_draft /\ DecLess(cost, 63) THEN DecRound2(DecAdd(cost, DecOf(20)), tie_up)
        ELSE IF product_type = "Core Product"
             THEN DecRound2(DecMul(cost, [m |-> 1265, k |-> 3]), tie_up)
             ELSE DecRound2(DecMul(cost, [m |-> 1285, k |-> 3]), tie_up)

\* str(float): the text of a float cell
FloatStr(d) == IF DecIsInteger(d) THEN StrOfNat(DecInt(d)) \o ".0" ELSE DecFloatStr(d)

\* lines 1721-1725: the original pack of the row
OrigPack(row) ==
    LET raw_pack == row.pack_size
    IN  IF raw_pack # "" /\ Lower(raw_pack) # "nan" /\ IsFloat(raw_pack)
        THEN FloatOf(raw_pack) ELSE DecOf(1)

\* lines 1727-1729
OrigPrice(row) == IF IsFloat(row.item_price) THEN FloatOf(row.item_price) ELSE DecOf(0)

\* line 1734 without "and orig_pack > 1"
HasSplitAnyPack(row) == row.is_split_case

\* line 1734: the row asks for a split configuration
HasSplit(row) == row.is_split_case /\ DecGreater(OrigPack(row), 1)

\* lines 1718-1737: the (pack, price) configurations of the row
VariantsConfig(row) ==
    <<[pack |-> OrigPack(row), price |-> OrigPrice(row)]>>
    \o (IF HasSplit(row)
        THEN <<[pack |-> DecHalf(OrigPack(row)), price |-> DecHalf(OrigPrice(row))]>>
        ELSE <<>>)

\* the connector rules with "steel" tried before "key"
ConnectorsSteelFirst(fmt_name) ==
    LET fmt_lower == Lower(fmt_name)
    IN  IF Contains(fmt_lower, "dolium") /\ Contains(fmt_lower, "us")
        THEN <<"US Sankey D-Type Coupler">>
        ELSE IF Contains(fmt_lower, "poly") THEN <<"Sankey Coupler", "KeyKeg Coupler">>
        ELSE IF Contains(fmt_lower, "steel") THEN <<"Sankey Coupler">>
        ELSE IF Contains(fmt_lower, "key") THEN <<"KeyKeg Coupler">>
        ELSE <<"">>

\* lines 1709-1715
Connectors(fmt_name) ==
    LET fmt_lower == Lower(fmt_name)
    IN  IF Contains(fmt_lower, "dolium") /\ Contains(fmt_lower, "us")
        THEN <<"US Sankey D-Type Coupler">>
        ELSE IF Contains(fmt_lower, "poly") THEN <<"Sankey Coupler", "KeyKeg Coupler">>
        ELSE IF Contains(fmt_lower, "key") THEN <<"KeyKeg Coupler">>
        ELSE IF Contains(fmt_lower, "steel") THEN <<"Sankey Coupler">>
        ELSE <<"">>

\* a family SKU without the row's index
FamilySkuNoIndex(row, idx, tables, today) ==
    LET fmt_name == Strip(row.format)
        s_code == Get(tables.supplier_map, row.untappd_brewery, "XXXX")
        p_code == generate_sku_parts(row.untappd_product)
        f_code == Get(tables.format_map, Lower(fmt_name), "UN")
    IN  s_code \o p_code \o "-" \o today \o "-" \o f_code

\* lines 1697-1706
FamilySku(row, idx, tables, today) ==
    LET fmt_name == Strip(row.format)
        s_code == Get(tables.supplier_map, row.untappd_brewery, "XXXX")
        p_code == generate_sku_parts(row.untappd_product)
        f_code == Get(tables.format_map, Lower(fmt_name), "UN")
    IN  s_code \o p_code \o "-" \o today \o "-" \o StrOfNat(idx) \o "-" \o f_code

\* line 1707
FamilyName(row) ==
    row.untappd_brewery \o " / " \o row.untappd_product \o " / " \o Strip(row.untappd_abv)
        \o "% / " \o Strip(row.format)

\* lines 1766-1770
VariantName(curr_pack, vol_name, conn) ==
    LET var_name_base == IF DecGreater(curr_pack, 1)
                         THEN StrOfNat(DecInt(curr_pack)) \o " x " \o vol_name
                         ELSE vol_name
    IN  IF conn # "" THEN var_name_base \o " - " \o conn ELSE var_name_base

\* lines 1776-1778: the connector part of the SKU suffix
ConnectorSuffix(conn, keg_map) ==
    IF conn # "" THEN "-" \o Get(keg_map, Lower(conn), "XX") ELSE ""

\* lines 1772-1780
VariantSku(family_sku, curr_pack, size_code, conn, keg_map) ==
    family_sku
    \o (IF DecGreater(curr_pack, 1)
        THEN "-" \o StrOfNat(DecInt(curr_pack)) \o "X" \o size_code
        ELSE "-" \o size_code)
    \o ConnectorSuffix(conn, keg_map)

\* lines 1751-1782: the row emitted for one configuration and one connector
UploadRow(row, idx, v_conf, conn, tables, today, tie_up) ==
    LET fmt_name == Strip(row.format)
        vol_name == Strip(row.volume)
        lookup_key == <<Lower(fmt_name), Lower(vol_name)>>
        unit_weight == Get(tables.weight_map, lookup_key, DecOf(0))
        size_code == Get(tables.size_code_map, lookup_key, "00")
        family_sku == FamilySku(row, idx, tables, today)
    IN  [row EXCEPT
            !.Family_SKU = family_sku,
            !.Family_Name = FamilyName(row),
            !.Weight = FloatStr(DecMul(unit_weight, v_conf.pack)),
            !.Keg_Connector = conn,
            !.item_price = FloatStr(v_conf.price),
            !.Sales_Price = FloatStr(calculate_sell_price(v_conf.price, row.Attribute_5,
                                                           fmt_name, tie_up)),
            !.pack_size = FloatStr(v_conf.pack),
            !.Variant_Name = VariantName(v_conf.pack, vol_name, conn),
            !.Variant_SKU = VariantSku(family_sku, v_conf.pack, size_code, conn,
                                       tables.keg_map)]

\* lines 1740-1782: the rows of one upload_data row, configurations outermost
RowsOf(row, idx, tables, today, tie_up) ==
    LET configs == VariantsConfig(row)
        conns == Connectors(Strip(row.format))
    IN  [n \in 1..(Len(configs) * Len(conns)) |->
            UploadRow(row, idx, configs[((n - 1) \div Len(conns)) + 1],
                      conns[((n - 1) % Len(conns)) + 1], tables, today, tie_up)]

\* lines 1687-1782: processed_rows over the rows from position i on
RECURSIVE ProcessedRows(_, _, _, _, _)
ProcessedRows(data, i, tables, today, tie_up) ==
    IF i > Len(data) THEN <<>>
    ELSE RowsOf(data[i], i - 1, tables, today, tie_up)
         \o ProcessedRows(data, i + 1, tables, today, tie_up)

----------------------------------------------------------------------------
(* The inputs of the matcher.                                              *)

\* the most candidates a catalog snapshot holds
MaxCands == 2

Vendor == "Example Brew Co"

ProductNames == {"Test Pale"}

\* token_sort_ratio values around the floor: with the +10 bonus 74, 75 and 90
Ratios == {64, 65, 80}

Variant(title, sku) == [title |-> title, sku |-> sku]

KegTitle == "L-Example Brew Co / Test Pale / 5% / Keg"

CatalogShapes ==
    { [title |-> KegTitle, format_meta |-> "Keg", keg_meta |-> "Steel",
       variants |-> <<Variant("30 Litre", "L-EBTP30S")>>],
      [title |-> KegTitle, format_meta |-> "Keg", keg_meta |-> "KeyKeg",
       variants |-> <<Variant("30 Litre", "L-EBTP30K")>>],
      [title |-> KegTitle, format_meta |-> "Keg", keg_meta |-> "PET",
       variants |-> <<Variant("30 Litre", "L-EBTP30P")>>],
      [title |-> "Pale Test Keg", format_meta |-> "Steel Keg", keg_meta |-> "",
       variants |-> <<Variant("30 Litre", "")>>],
      [title |-> "G-Example Brew Co / Test Pale Ale / 5% / Can", format_meta |-> "Can",
       keg_meta |-> "",
       variants |-> <<Variant("12 x 330ml", "G-EBTP12C"), Variant("24 x 330ml", "G-EBTP24C")>>],
      [title |-> "L-Example Brew Co / Test Pale / 5% / Cask", format_meta |-> "Cask",
       keg_meta |-> "",
       variants |-> <<Variant("9 Gallon Firkin", "L-EBTP9G")>>] }

Candidates ==
    { [title |-> c.title, format_meta |-> c.format_meta, keg_meta |-> c.keg_meta,
       variants |-> c.variants, ratio |-> r] :
          c \in CatalogShapes, r \in [ProductNames -> Ratios] }

Catalogs == UNION { [1..n -> Candidates] : n \in 0..MaxCands }

InvoiceLine(supplier, fmt, pack, vol, split) ==
    [Supplier_Name |-> supplier, Collaborator |-> "", Product_Name |-> "Test Pale",
     ABV |-> "5", Format |-> fmt, Pack_Size |-> pack, Volume |-> vol,
     Item_Price |-> "150", Quantity |-> "1", Use_Split |-> split,
     Shopify_Status |-> StatusPending, Matched_Product |-> "", Matched_Variant |-> "",
     London_SKU |-> "", Cin7_London_ID |-> "", Gloucester_SKU |-> "", Cin7_Glou_ID |-> ""]

LineShapes ==
    { <<"KeyKeg", "1", "30L">>, <<"Steel Keg", "1", "30L">>, <<"PolyKeg", "1", "30L">>,
      <<"Keg", "1", "30L">>, <<"Cask", "1", "9G">>,
      <<"Can", "24", "330ml">>, <<"Can", "12", "330ml">> }

InvoiceLines ==
    { InvoiceLine(Vendor, l[1], l[2], l[3], FALSE) : l \in LineShapes }
    \cup { InvoiceLine(Vendor, "Can", "24", "330ml", TRUE),
           InvoiceLine(Vendor, "Steel Keg", "1", "30L", TRUE),
           InvoiceLine(Vendor, "Keg/Cask", "1", "30L", FALSE),
           InvoiceLine(Vendor, "Can", "4", "330ml", FALSE),
           InvoiceLine("", "KeyKeg", "1", "30L", FALSE),
           InvoiceLine("Unknown Brewery", "KeyKeg", "1", "30L", FALSE) }

\* the ERP knows the London steel keg and no other product
Cin7Snapshots == { <<[ID |-> "id1", SKU |-> "L-EBTP30S"]>> }

NoSheets == [supplier_map |-> <<>>, format_map |-> <<>>, size_code_map |-> <<>>,
             weight_map |-> <<>>, keg_map |-> <<>>]

NoSync == [pc |-> "idle"]

NoCalc == [op |-> "none"]

NoPo == [pc |-> "idle"]

NoHttp == [pc |-> "idle"]

Today == "03112026"

----------------------------------------------------------------------------
(* The matcher's specification: one extracted invoice row, one catalog     *)
(* snapshot, and the "Check Inventory" handler.                            *)

InitMatch ==
    /\ po = NoPo
    /\ http = NoHttp
    /\ line_items \in { <<l>> : l \in InvoiceLines }
    /\ shopify_store \in { [v \in {Vendor} |-> c] : c \in Catalogs }
    /\ cin7_products \in Cin7Snapshots
    /\ matrix_data = <<>>
    /\ upload_data = <<>>
    /\ upload_generated = FALSE
    /\ st_errors = <<>>
    /\ sheets = NoSheets
    /\ cin7_families = <<>>
    /\ today_str = Today
    /\ calc = NoCalc
    /\ sync = NoSync

\* lines 1543-1551: the "Check Inventory" button
CheckInventory ==
    /\ UNCHANGED <<po, http>>
    /\ line_items # <<>>
    /\ line_items' = run_reconciliation_check(line_items, shopify_store, cin7_products)
    /\ matrix_data' = create_product_matrix(line_items')
    /\ st_errors' = <<>>
    /\ UNCHANGED <<upload_data, upload_generated, shopify_store, sheets,
                   cin7_products, cin7_families, today_str, sync, calc>>

NextMatch == CheckInventory

SpecMatch == InitMatch /\ [][NextMatch]_vars

----------------------------------------------------------------------------
(* Properties of the matcher.                                              *)

\* the rows run_reconciliation_check has processed
CheckedRows == { i \in 1..Len(line_items) : line_items[i].Shopify_Status # StatusPending }

\* the catalog snapshot the reconciliation holds for the row's supplier
SnapshotOf(row) ==
    IF Strip(row.Supplier_Name) # "" /\ row.Supplier_Name \in DOMAIN shopify_store
    THEN shopify_store[row.Supplier_Name]
    ELSE <<>>

\* the row's result names variant j of candidate c
ResultNames(row, c, j) ==
    /\ row.Matched_Product = MatchedProdName(c.title)
    /\ row.Matched_Variant = c.variants[j].title
    /\ row.London_SKU = LocationSku("L-", c.variants[j])
    /\ row.Gloucester_SKU = LocationSku("G-", c.variants[j])

\* the keg families a lower-cased text names
KegFamilies(text) ==
    { f \in {"poly", "key", "steel"} :
        \/ f = "poly" /\ (Contains(text, "poly") \/ Contains(text, "dolium")
                             \/ Contains(text, "pet"))
        \/ f = "key" /\ Contains(text, "keykeg")
        \/ f = "steel" /\ (Contains(text, "steel") \/ Contains(text, "stainless")) }

\* the keg families the candidate's format or keg-type text names
CandidateFamilies(c) == KegFamilies(Lower(c.keg_meta)) \cup KegFamilies(Lower(c.format_meta))

\* C1: a keg line of exactly one of the families poly/dolium/PET, keyKeg and
\* steel/stainless is never matched to a variant of a candidate whose format or
\* keg-type text names another of these families.
C1_NoCrossFamilyMatch ==
    \A i \in CheckedRows :
        LET row == line_items[i]
            inv_fmt == Lower(row.Format)
        IN  (/\ Contains(inv_fmt, "keg")
             /\ Cardinality(KegFamilies(inv_fmt)) = 1
             /\ row.Shopify_Status = StatusMatch)
            => \A n \in 1..Len(SnapshotOf(row)) :
                   LET c == SnapshotOf(row)[n]
                   IN  \A j \in 1..Len(c.variants) :
                           ResultNames(row, c, j) => CandidateFamilies(c) \subseteq KegFamilies(inv_fmt)

\* C2: every processed row is either Matched with both location SKUs non-empty,
\* or not Matched with both SKUs and both Cin7 IDs empty.
C2_MatchedIffSkus ==
    \A i \in CheckedRows :
        LET row == line_items[i]
        IN  \/ /\ row.Shopify_Status = StatusMatch
               /\ row.London_SKU # ""
               /\ row.Gloucester_SKU # ""
            \/ /\ row.Shopify_Status # StatusMatch
               /\ row.London_SKU = ""
               /\ row.Gloucester_SKU = ""
               /\ row.Cin7_London_ID = ""
               /\ row.Cin7_Glou_ID = ""

\* candidate n of the snapshot passes the floor and the compatibility filter, and
\* its variant j passes the pack and the volume check
Qualifies(row, snapshot, n, j) ==
    /\ Score(row.Product_Name, snapshot[n]) >= 75
    /\ IsCompatible(Lower(row.Format), snapshot[n])
    /\ VariantOk(InvPack(row), normalize_vol_string(row.Volume), snapshot[n].variants[j])

QualifyingPairs(row, snapshot) ==
    { p \in (1..Len(snapshot)) \X (1..3) :
        p[2] <= Len(snapshot[p[1]].variants) /\ Qualifies(row, snapshot, p[1], p[2]) }

C4_ScoreFloor ==
    \A i \in CheckedRows :
        LET row == line_items[i]
            snapshot == SnapshotOf(row)
        IN  /\ row.Shopify_Status = StatusMatch =>
                \E n \in 1..Len(snapshot) : \E j \in 1..Len(snapshot[n].variants) :
                    /\ Score(row.Product_Name, snapshot[n]) >= 75
                    /\ ResultNames(row, snapshot[n], j)
            /\ (\E n \in 1..Len(snapshot) : \E j \in 1..Len(snapshot[n].variants) :
                    /\ Score(row.Product_Name, snapshot[n]) = 75
                    /\ IsCompatible(Lower(row.Format), snapshot[n])
                    /\ VariantOk(InvPack(row), normalize_vol_string(row.Volume),
                                 snapshot[n].variants[j]))
               => row.Shopify_Status = StatusMatch

\* the only candidate scores 74, is compatible and has a passing variant: Unmatched
C4_Witness ==
    \E i \in CheckedRows :
        LET row == line_items[i]
            snapshot == SnapshotOf(row)
        IN  /\ Len(snapshot) = 1
            /\ Score(row.Product_Name, snapshot[1]) = 74
            /\ IsCompatible(Lower(row.Format), snapshot[1])
            /\ VariantOk(InvPack(row), normalize_vol_string(row.Volume),
                         snapshot[1].variants[1])
            /\ row.Shopify_Status = StatusUnmatched

\* C5: a row is VendorNotFound exactly when the snapshot fetched for its supplier
\* is absent or empty; with a candidate the row is Matched or Unmatched.
C5_VendorNotFoundIffNoSnapshot ==
    \A i \in CheckedRows :
        LET row == line_items[i]
        IN  /\ row.Shopify_Status = StatusVendorNotFound <=> SnapshotOf(row) = <<>>
            /\ SnapshotOf(row) # <<>> => row.Shopify_Status \in {StatusMatch, StatusUnmatched}

\* candidates exist and none matches: the row is Unmatched, not VendorNotFound
C5_Witness ==
    \E i \in CheckedRows :
        /\ SnapshotOf(line_items[i]) # <<>>
        /\ line_items[i].Shopify_Status = StatusUnmatched

----------------------------------------------------------------------------
(* Tabs 3 and 4: staging and generation over an enriched product matrix.   *)

\* the most rows of the product matrix
MaxRows == 2

\* "Generate Upload Data" is followed only while upload_data is this short
MaxUploadRows == 4

Slot(fmt, pack, vol, price, split) ==
    [Format |-> fmt, Pack_Size |-> pack, Volume |-> vol, Item_Price |-> price,
     Split_Case |-> split]

SlotShapes ==
    { <<Slot("Can", "24", "330ml", "48", TRUE)>>,
      <<Slot("Can", "24", "330ml", "48", FALSE)>>,
      <<Slot("Can", "12", "355ml", "30", FALSE)>>,
      <<Slot("Bottle", "3", "750ml", "27", TRUE)>>,
      <<Slot("PolyKeg", "1", "30L", "150", FALSE)>>,
      <<Slot("KeyKeg", "1", "30L", "150", FALSE)>>,
      <<Slot("Steel Keg", "1", "30L", "150", TRUE)>>,
      <<Slot("Dolium US Keg", "1", "30L", "150", FALSE)>>,
      <<Slot("Can", "24", "330ml", "48", TRUE), Slot("PolyKeg", "1", "30L", "150", FALSE)>>,
      <<Slot("KeyKeg", "1", "30L", "150", FALSE), Slot("None", "", "", "", FALSE)>> }

\* a matrix row after the Untappd search and the user's edits in tab 3
EnrichedRow(slots, style) ==
    [Supplier_Name |-> Vendor, Type |-> "Beer", Collaborator |-> "",
     Product_Name |-> "Test Pale", ABV |-> "5", Untappd_Status |-> "Found",
     Untappd_Brewery |-> Vendor, Untappd_Product |-> "Test Pale", Untappd_ABV |-> "5",
     Untappd_Style |-> style, Untappd_Desc |-> "A pale ale",
     slots |-> [i \in 1..MaxSlots |-> IF i <= Len(slots) THEN slots[i] ELSE EmptySlot]]

\* slots whose format text falls under more than one connector rule
MixedKegShapes ==
    { <<Slot("Dolium US PolyKeg", "1", "30L", "150", FALSE)>>,
      <<Slot("Poly KeyKeg", "1", "30L", "150", FALSE),
        Slot("Steel KeyKeg", "1", "30L", "150", FALSE)>> }

EnrichedRows ==
    { EnrichedRow(sl, style) : sl \in SlotShapes, style \in {"IPA", ""} }
    \cup { EnrichedRow(sl, "IPA") : sl \in MixedKegShapes }

\* the matrices of tab 3, and the matrix as "Check Inventory" leaves it
Matrices ==
    UNION { [1..n -> EnrichedRows] : n \in 1..MaxRows }
    \cup { create_product_matrix(<<[InvoiceLine(Vendor, "Can", "24", "330ml", FALSE)
                                       EXCEPT !.Shopify_Status = StatusUnmatched]>>) }

FullSheets ==
    [supplier_map |-> [n \in {Vendor} |-> "EXBC"],
     format_map |-> [f \in {"can", "polykeg", "keykeg", "steel keg"} |->
                        CASE f = "can" -> "CN" [] f = "polykeg" -> "PK"
                          [] f = "keykeg" -> "KK" [] f = "steel keg" -> "SK"],
     size_code_map |-> [key \in {<<"can", "330ml">>, <<"polykeg", "30l">>} |->
                           IF key[1] = "can" THEN "33" ELSE "30"],
     weight_map |-> [key \in {<<"can", "330ml">>, <<"polykeg", "30l">>} |->
                        IF key[1] = "can" THEN [m |-> 5, k |-> 1] ELSE [m |-> 32, k |-> 0]],
     keg_map |-> [c \in {"sankey coupler", "keykeg coupler"} |->
                     IF c = "sankey coupler" THEN "SC" ELSE "KC"]]

SheetSnapshots == {FullSheets, NoSheets}

InitSynth ==
    /\ po = NoPo
    /\ http = NoHttp
    /\ matrix_data \in Matrices
    /\ sheets \in SheetSnapshots
    /\ line_items = <<>>
    /\ upload_data = <<>>
    /\ upload_generated = FALSE
    /\ st_errors = <<>>
    /\ shopify_store = <<>>
    /\ cin7_products = <<>>
    /\ cin7_families = <<>>
    /\ today_str = Today
    /\ calc = NoCalc
    /\ sync = NoSync

\* a staging that leaves the upload_generated flag as it is
StageKeepingFlag ==
    /\ UNCHANGED <<po, http>>
    /\ matrix_data # <<>>
    /\ LET staged == stage_products_for_upload(matrix_data)
       IN  /\ st_errors' = staged.errors
           /\ IF staged.errors # <<>>
              THEN UNCHANGED <<upload_data, upload_generated>>
              ELSE /\ upload_data' = staged.rows
                   /\ UNCHANGED upload_generated
    /\ UNCHANGED <<line_items, matrix_data, shopify_store, sheets, cin7_products,
                   cin7_families, today_str, sync, calc>>

\* lines 1664-1671: the "Validate & Stage for Upload" button
ValidateAndStage ==
    /\ UNCHANGED <<po, http>>
    /\ matrix_data # <<>>
    /\ LET staged == stage_products_for_upload(matrix_data)
       IN  /\ st_errors' = staged.errors
           /\ IF staged.errors # <<>>
              THEN UNCHANGED <<upload_data, upload_generated>>
              ELSE /\ upload_data' = staged.rows
                   /\ upload_generated' = FALSE
    /\ UNCHANGED <<line_items, matrix_data, shopify_store, sheets, cin7_products,
                   cin7_families, today_str, sync, calc>>

\* lines 1677-1798: the "Generate Upload Data" button
GenerateUploadData ==
    /\ UNCHANGED <<po, http>>
    /\ upload_data # <<>>
    /\ Len(upload_data) <= MaxUploadRows
    /\ \E tie_up \in BOOLEAN :
          upload_data' = ProcessedRows(upload_data, 1, sheets, today_str, tie_up)
    /\ upload_generated' = TRUE
    /\ st_errors' = <<>>
    /\ UNCHANGED <<line_items, matrix_data, shopify_store, sheets, cin7_products,
                   cin7_families, today_str, sync, calc>>

NextSynth ==
    \/ ValidateAndStage
    \/ GenerateUploadData

SpecSynth == InitSynth /\ [][NextSynth]_vars

----------------------------------------------------------------------------
(* Properties of staging and generation.                                   *)

\* C6: among the rows generated for one family no two have the same Variant_SKU,
\* whatever the lookup tables hold.
C6_VariantSkusDistinct ==
    upload_generated =>
        \A i, j \in 1..Len(upload_data) :
            (i # j /\ upload_data[i].Family_SKU = upload_data[j].Family_SKU)
            => upload_data[i].Variant_SKU # upload_data[j].Variant_SKU

\* the number of rows the synthesizer is to emit for one row: (1 + s) x c
ClaimedCount(row) ==
    (1 + (IF row.is_split_case /\ DecGreater(OrigPack(row), 1) THEN 1 ELSE 0))
    * Len(Connectors(row.format))

RECURSIVE ClaimedOffset(_, _)
ClaimedOffset(data, i) ==
    IF i <= 1 THEN 0 ELSE ClaimedOffset(data, i - 1) + ClaimedCount(data[i - 1])

\* C7: a generation emits for each row exactly (1 + s) x c rows, c of them with
\* the row's pack and cost and s x c of them with half the pack and half the cost,
\* all with one Family_SKU and one Family_Name.
C7_RowExpansion ==
    [][GenerateUploadData =>
        LET in == upload_data
            out == upload_data'
        IN  /\ Len(out) = ClaimedOffset(in, Len(in) + 1)
            /\ \A i \in 1..Len(in) :
                  LET block == { n \in 1..Len(out) :
                                    /\ n > ClaimedOffset(in, i)
                                    /\ n <= ClaimedOffset(in, i + 1) }
                      c == Len(Connectors(in[i].format))
                      s == IF in[i].is_split_case /\ DecGreater(OrigPack(in[i]), 1)
                           THEN 1 ELSE 0
                      pack(n) == FloatOf(out[n].pack_size)
                      cost(n) == FloatOf(out[n].item_price)
                  IN  /\ Cardinality({ n \in block :
                                          /\ pack(n) = OrigPack(in[i])
                                          /\ cost(n) = OrigPrice(in[i]) }) = c
                      /\ Cardinality({ n \in block :
                                          /\ DecMul(DecOf(2), pack(n)) = OrigPack(in[i])
                                          /\ DecMul(DecOf(2), cost(n)) = OrigPrice(in[i])
                                          /\ pack(n) # OrigPack(in[i]) }) = s * c
                      /\ \A n, m \in block :
                            /\ out[n].Family_SKU = out[m].Family_SKU
                            /\ out[n].Family_Name = out[m].Family_Name
    ]_vars

\* a split case of 24 cans was generated: a 24.0 row and a 12.0 row of one family
C7_Witness ==
    /\ upload_generated
    /\ \E n, m \in 1..Len(upload_data) :
          /\ upload_data[n].pack_size = "24.0" /\ upload_data[n].item_price = "48.0"
          /\ upload_data[m].pack_size = "12.0" /\ upload_data[m].item_price = "24.0"
          /\ upload_data[n].Family_SKU = upload_data[m].Family_SKU
          /\ upload_data[n].Family_SKU # ""

\* every required enrichment field of the matrix row is present and not blank
CompleteRow(row) ==
    /\ row.Untappd_Brewery # Absent /\ Strip(row.Untappd_Brewery) # ""
    /\ row.Untappd_Product # Absent /\ Strip(row.Untappd_Product) # ""
    /\ row.Untappd_ABV # Absent /\ Strip(row.Untappd_ABV) # ""
    /\ row.Untappd_Style # Absent /\ Strip(row.Untappd_Style) # ""
    /\ row.Untappd_Desc # Absent /\ Strip(row.Untappd_Desc) # ""

\* the staged variants of the complete rows of the matrix
RECURSIVE StagedOfComplete(_, _)
StagedOfComplete(matrix, i) ==
    IF i > Len(matrix) THEN <<>>
    ELSE (IF CompleteRow(matrix[i]) THEN StagedSlots(matrix[i], 1) ELSE <<>>)
         \o StagedOfComplete(matrix, i + 1)

\* C8: when staging meets incomplete and complete rows, the complete rows are
\* staged into upload_data and every incomplete row has an error naming it.
C8_PartialStaging ==
    (st_errors # <<>> /\ \E i \in 1..Len(matrix_data) : CompleteRow(matrix_data[i]))
    => /\ upload_data = StagedOfComplete(matrix_data, 1)
       /\ \A i \in 1..Len(matrix_data) :
             ~CompleteRow(matrix_data[i]) =>
                 \E e \in 1..Len(st_errors) :
                     Contains(st_errors[e], "Row " \o StrOfNat(i) \o ":")

\* C9: the variant name generated for an integer pack count P and a volume V
\* passes the matcher's pack check for P's token and its volume check for
\* normalize_vol_string(V).
C9_NameRoundTrip ==
    upload_generated =>
        \A n \in 1..Len(upload_data) :
            LET row == upload_data[n]
                P == FloatOf(row.pack_size)
            IN  DecIsInteger(P) =>
                    /\ PackOk(DecToken(P), Lower(row.Variant_Name))
                    /\ VolOk(normalize_vol_string(row.volume), Lower(row.Variant_Name))

----------------------------------------------------------------------------
(* The Cin7 sync: sync_product_to_cin7 over the generated upload data.     *)
(* cin7_families and cin7_products are the ERP's product families and      *)
(* products; sync is the position of the run inside its loops, with the    *)
(* log's count of creations and the number of steps with a failed call.    *)

\* the most presses of "Upload To Cin7" that are followed
MaxRuns == 2

\* the most steps of the sync with a failing API call that are followed
MaxFailures == 1

\* the order of Python's str comparison on the characters of a family SKU
SkuAlphabet == "-0123456789ABCDEFGHIJKLMNOPQRSTUVWXYZ"

Ord(c) == FindChar(SkuAlphabet, c, 1)

\* a < b, the first i - 1 characters being equal
RECURSIVE StrLess(_, _, _)
StrLess(a, b, i) ==
    IF i > Len(b) THEN FALSE
    ELSE IF i > Len(a) THEN TRUE
    ELSE IF CharAt(a, i) = CharAt(b, i) THEN StrLess(a, b, i + 1)
    ELSE Ord(CharAt(a, i)) < Ord(CharAt(b, i))

RECURSIVE SortedKeys(_)
SortedKeys(keys) ==
    IF keys = {} THEN <<>>
    ELSE LET m == CHOOSE k \in keys : \A o \in keys \ {k} : StrLess(k, o, 1)
         IN  <<m>> \o SortedKeys(keys \ {m})

\* line 785: groupby('Family_SKU') iterates the keys in sorted order, each
\* group holding its rows in the order of the frame
FamilyKeys(upload_df) ==
    SortedKeys({ upload_df[i].Family_SKU : i \in 1..Len(upload_df) })

Group(upload_df, fam_sku) == SelectSeq(upload_df, LAMBDA row : row.Family_SKU = fam_sku)

\* the ERP's Sku= / Name= query filter is the server's: it returns the exact
\* matches alone, or every item whose field starts with the value
ServerFilters == {"exact", "prefix"}

ServerMatch(filter, value, query) ==
    IF filter = "exact" THEN value = query ELSE StartsWith(value, query)

ServerList(items, field, query, filter) ==
    SelectSeq(items, LAMBDA it : ServerMatch(filter, it[field], query))

RECURSIVE FirstExact(_, _, _)
FirstExact(items, field, name_or_sku) ==
    IF items = <<>> THEN None
    ELSE IF Lower(Head(items)[field]) = Lower(name_or_sku) THEN Head(items).ID
         ELSE FirstExact(Tail(items), field, name_or_sku)

\* lines 572-589; a failed GET gives None
check_cin7_exists(items, field, name_or_sku, filter, get_ok) ==
    IF ~get_ok THEN None
    ELSE FirstExact(ServerList(items, field, name_or_sku, filter), field, name_or_sku)

LocPrefix(location_prefix) == IF location_prefix = "L" THEN "L-" ELSE "G-"

\* the ID the ERP gives to the next item it creates
NewId(kind, items) == kind \o StrOfNat(Len(items) + 1)

\* lines 591-637; oks tells for each API call whether it succeeds
create_cin7_family_node(families, family_base_sku, family_base_name, location_prefix, filter, oks) ==
    LET full_sku == LocPrefix(location_prefix) \o family_base_sku
        full_name == LocPrefix(location_prefix) \o family_base_name
        by_sku == check_cin7_exists(families, "SKU", full_sku, filter, oks.get_sku)
        by_name == check_cin7_exists(families, "Name", full_name, filter, oks.get_name)
        new_id == NewId("fam", families)
    IN  IF by_sku # None
        THEN [fam_id |-> by_sku, families |-> families, created |-> FALSE,
              failed |-> FALSE]
        ELSE IF by_name # None
        THEN [fam_id |-> by_name, families |-> families, created |-> FALSE,
              failed |-> ~oks.get_sku]
        ELSE IF oks.post
        THEN [fam_id |-> new_id,
              families |-> Append(families, [ID |-> new_id, SKU |-> full_sku,
                                             Name |-> full_name, Products |-> <<>>]),
              created |-> TRUE, failed |-> ~oks.get_sku \/ ~oks.get_name]
        ELSE [fam_id |-> None, families |-> families, created |-> FALSE,
              failed |-> TRUE]

\* the member list with an entry for the product and nothing else changed
LinkProductAppend(current_products, product_id, var_name_raw) ==
    Append(current_products, [ID |-> product_id, Option1 |-> var_name_raw])

\* lines 753-765: replace the entry of the product, or append one
LinkProduct(current_products, product_id, var_name_raw) ==
    LET hits == { i \in 1..Len(current_products) :
                     Lower(current_products[i].ID) = Lower(product_id) }
    IN  IF hits = {}
        THEN Append(current_products, [ID |-> product_id, Option1 |-> var_name_raw])
        ELSE LET first == CHOOSE i \in hits : \A h \in hits : i <= h
             IN  [i \in 1..Len(current_products) |->
                     IF i = first
                     THEN [current_products[i] EXCEPT !.Option1 = var_name_raw]
                     ELSE current_products[i]]

\* lines 639-781
create_cin7_variant(products, families, row_data, family_id, family_base_name, location_prefix, filter, oks) ==
    LET full_var_sku == LocPrefix(location_prefix) \o row_data.Variant_SKU
        full_var_name == LocPrefix(location_prefix) \o family_base_name \o " / "
                         \o row_data.Variant_Name
        found == IF oks.check THEN ServerList(products, "SKU", full_var_sku, filter)
                 ELSE <<>>
        existing == IF found # <<>> THEN found[1].ID ELSE None
        new_id == NewId("prod", products)
        product_created == existing = None /\ oks.post
        products1 == IF product_created
                     THEN Append(products, [ID |-> new_id, SKU |-> full_var_sku,
                                            Name |-> full_var_name])
                     ELSE products
        product_id == IF existing # None THEN existing
                      ELSE IF oks.post THEN new_id ELSE None
        fam_hits == { i \in 1..Len(families) : families[i].ID = family_id }
    IN  IF product_id = None
        THEN [products |-> products1, families |-> families, created |-> FALSE,
              failed |-> TRUE]
        ELSE IF ~oks.fetch \/ fam_hits = {}
        THEN [products |-> products1, families |-> families,
              created |-> product_created, failed |-> TRUE]
        ELSE LET f == CHOOSE i \in fam_hits : TRUE
                 linked == LinkProduct(families[f].Products, product_id,
                                       row_data.Variant_Name)
             IN  [products |-> products1,
                  families |-> IF oks.put
                               THEN [families EXCEPT ![f].Products = linked]
                               ELSE families,
                  created |-> product_created,
                  failed |-> ~oks.check \/ ~oks.put]

\* a run that ends at the first family and location it is done with
HaltRun(s) == [s EXCEPT !.pc = "idle"]

\* lines 786-798: the loops of sync_product_to_cin7 move on to the other
\* location, to the next family, or end
NextLoc(s) ==
    IF s.loc = "L"
    THEN [s EXCEPT !.pc = "family", !.loc = "G", !.r = 0, !.fam_id = None]
    ELSE IF s.f < Len(s.keys)
    THEN [s EXCEPT !.pc = "family", !.f = @ + 1, !.loc = "L", !.r = 0,
                   !.fam_id = None]
    ELSE [s EXCEPT !.pc = "idle", !.r = 0, !.fam_id = None]

\* generated upload data: a split case of cans with a PolyKeg, a PolyKeg whose
\* connector lookups miss, and one case of cans
SyncUploads ==
    { ProcessedRows(stage_products_for_upload(
                        <<EnrichedRow(<<Slot("Can", "24", "330ml", "48", TRUE),
                                        Slot("PolyKeg", "1", "30L", "150", FALSE)>>,
                                      "IPA")>>).rows, 1, FullSheets, Today, TRUE),
      ProcessedRows(stage_products_for_upload(
                        <<EnrichedRow(<<Slot("PolyKeg", "1", "30L", "150", FALSE)>>,
                                      "IPA")>>).rows, 1, NoSheets, Today, TRUE),
      ProcessedRows(stage_products_for_upload(
                        <<EnrichedRow(<<Slot("Can", "24", "330ml", "48", FALSE)>>,
                                      "IPA")>>).rows, 1, FullSheets, Today, TRUE) }

\* the ERP before the first run: empty, or holding another product whose SKU
\* begins with a generated one and a family of the generated name under
\* another SKU
ErpSnapshots ==
    { [products |-> <<>>, families |-> <<>>],
      [products |-> <<[ID |-> "prod1", SKU |-> "L-EXBCTEPA-03112026-0-CN-24X33-B",
                       Name |-> "L-Example Brew Co / Test Pale / 5% / Can / 24 x 330ml B"]>>,
       families |-> <<[ID |-> "fam1", SKU |-> "L-OLDTEPA",
                       Name |-> "L-Example Brew Co / Test Pale / 5% / Can",
                       Products |-> <<>>]>>] }

InitSync ==
    /\ po = NoPo
    /\ http = NoHttp
    /\ upload_data \in SyncUploads
    /\ upload_generated = TRUE
    /\ \E erp \in ErpSnapshots :
          /\ cin7_products = erp.products
          /\ cin7_families = erp.families
    /\ \E filter \in ServerFilters :
          sync = [pc |-> "idle", keys |-> <<>>, f |-> 0, loc |-> "L", r |-> 0,
                  fam_id |-> None, runs |-> 0, failures |-> 0, created |-> 0,
                  filter |-> filter]
    /\ line_items = <<>>
    /\ matrix_data = <<>>
    /\ st_errors = <<>>
    /\ shopify_store = <<>>
    /\ sheets = FullSheets
    /\ today_str = Today
    /\ calc = NoCalc

\* lines 1900-1906: the "Upload To Cin7" button starts sync_product_to_cin7
UploadToCin7 ==
    /\ UNCHANGED <<po, http>>
    /\ upload_generated
    /\ sync.pc = "idle"
    /\ sync.runs < MaxRuns
    /\ LET keys == FamilyKeys(upload_data)
       IN  sync' = [sync EXCEPT !.pc = IF keys = <<>> THEN "idle" ELSE "family",
                                !.keys = keys, !.f = 1, !.loc = "L", !.r = 0,
                                !.fam_id = None, !.runs = @ + 1, !.created = 0]
    /\ UNCHANGED <<line_items, matrix_data, upload_data, upload_generated, st_errors,
                   shopify_store, sheets, cin7_products, cin7_families, today_str, calc>>

\* lines 789-792, 796-797: the family node of one family at one location
SyncFamilyNode ==
    /\ UNCHANGED <<po, http>>
    /\ sync.pc = "family"
    /\ \E oks \in [get_sku : BOOLEAN, get_name : BOOLEAN, post : BOOLEAN] :
          LET fam_sku == sync.keys[sync.f]
              group == Group(upload_data, fam_sku)
              res == create_cin7_family_node(cin7_families, fam_sku,
                                             group[1].Family_Name, sync.loc,
                                             sync.filter, oks)
              s == [sync EXCEPT !.failures = @ + (IF res.failed THEN 1 ELSE 0),
                                !.created = @ + (IF res.created THEN 1 ELSE 0)]
          IN  /\ res.failed => sync.failures < MaxFailures
              /\ cin7_families' = res.families
              /\ sync' = IF res.fam_id # None
                         THEN [s EXCEPT !.pc = "variant", !.r = 1,
                                        !.fam_id = res.fam_id]
                         ELSE NextLoc(s)
    /\ UNCHANGED <<line_items, matrix_data, upload_data, upload_generated, st_errors,
                   shopify_store, sheets, cin7_products, today_str, calc>>

\* lines 793-795: one variant of the family at the location
SyncVariant ==
    /\ UNCHANGED <<po, http>>
    /\ sync.pc = "variant"
    /\ \E oks \in [check : BOOLEAN, post : BOOLEAN, fetch : BOOLEAN, put : BOOLEAN] :
          LET fam_sku == sync.keys[sync.f]
              group == Group(upload_data, fam_sku)
              res == create_cin7_variant(cin7_products, cin7_families,
                                         group[sync.r], sync.fam_id,
                                         group[1].Family_Name, sync.loc,
                                         sync.filter, oks)
              s == [sync EXCEPT !.failures = @ + (IF res.failed THEN 1 ELSE 0),
                                !.created = @ + (IF res.created THEN 1 ELSE 0)]
          IN  /\ res.failed => sync.failures < MaxFailures
              /\ cin7_products' = res.products
              /\ cin7_families' = res.families
              /\ sync' = IF sync.r < Len(group)
                         THEN [s EXCEPT !.r = @ + 1]
                         ELSE NextLoc(s)
    /\ UNCHANGED <<line_items, matrix_data, upload_data, upload_generated, st_errors,
                   shopify_store, sheets, today_str, calc>>

NextSync ==
    \/ UploadToCin7
    \/ SyncFamilyNode
    \/ SyncVariant

SpecSync == InitSync /\ [][NextSync]_vars

----------------------------------------------------------------------------
(* Properties of the Cin7 sync.                                            *)

\* C10: as long as every API call has succeeded, whatever the number of runs
\* over the same upload data, the ERP holds at most one family per family SKU,
\* at most one product per variant SKU and at most one member entry per product
\* ID in each family, and a run after the first creates nothing.
C10_SyncIdempotent ==
    sync.failures = 0 =>
        /\ \A i, j \in 1..Len(cin7_families) :
              i # j => cin7_families[i].SKU # cin7_families[j].SKU
        /\ \A i, j \in 1..Len(cin7_products) :
              i # j => cin7_products[i].SKU # cin7_products[j].SKU
        /\ \A f \in 1..Len(cin7_families) :
              \A a, b \in 1..Len(cin7_families[f].Products) :
                  a # b => cin7_families[f].Products[a].ID
                           # cin7_families[f].Products[b].ID
        /\ sync.runs >= 2 => sync.created = 0

\* a second run has ended without a failed call, over families with members
C10_Witness ==
    /\ sync.failures = 0
    /\ sync.runs = 2
    /\ sync.pc = "idle"
    /\ Len(cin7_products) >= 4
    /\ \E f \in 1..Len(cin7_families) : Len(cin7_families[f].Products) >= 2

----------------------------------------------------------------------------
(* Functions called on their own: calc holds the arguments of one call and *)
(* what the call returned.                                                 *)

Dec(m, k) == DecNorm([m |-> m, k |-> k])

\* costs around the two draft boundaries, non-positive costs, and costs whose
\* marked-up value lies half way between two cents (27 * 1.285, 10.125 + 20)
Costs ==
    { Dec(-5, 0), Dec(-1, 2), Dec(0, 0), Dec(1, 2), Dec(10, 0), Dec(10125, 3),
      Dec(27, 0), Dec(6299, 2), Dec(63, 0), Dec(6301, 2), Dec(100, 0),
      Dec(13999, 2), Dec(140, 0), Dec(14001, 2), Dec(150, 0) }

ProductTypes == {"Core Product", "Rotational Product"}

PriceFormats == {"KeyKeg", "Steel Keg", "Cask", "Can", "Bottle"}

\* pack tokens, volume tokens and variant titles of the catalog
PackTokens == {"1", "2", "12", "24", "1.5"}

VolTokens == {"33", "44", "9", "40", "41", "4", "4.5", "20", "21", "30", "5", "0"}

VariantTitles ==
    { "12 x 330ml", "12x330ml", "24 x 440ml", "330ml", "440ml Can", "30 Litre",
      "9 Gallon Firkin", "Firkin", "4.5 Gallon Pin", "Pin", "1.5 x 5L", "Keg" }

\* Pack_Size cells of an invoice line
PackCells == {"", "none", "0", "1", "2", "3", "12", "24", " 6 "}

\* product names handed to generate_sku_parts
SkuNames ==
    {"Hazy Pale Ale", "IPA", "Triple Hop Citra Pale", "", "   ", "!!!", "A", "A B",
     "a b c d e", "Hop-Head", "Pale & Ale", "x Yz", "Mc'Q 7up", "  Dry   Stout ",
     "No. 5 I.P.A. (2024) #1", "O ' K"}

\* the calls that are made, each with its arguments and no result yet
Calls ==
    { [op |-> "calculate_sell_price", cost |-> cost, product_type |-> product_type,
       fmt |-> fmt, tie_up |-> tie_up, done |-> FALSE, out |-> None] :
          cost \in Costs, product_type \in ProductTypes, fmt \in PriceFormats,
          tie_up \in BOOLEAN }
    \cup
    { [op |-> "variant_check", inv_pack |-> inv_pack, inv_vol |-> inv_vol,
       v_title |-> Lower(title), done |-> FALSE, out |-> None] :
          inv_pack \in PackTokens, inv_vol \in VolTokens, title \in VariantTitles }
    \cup
    { [op |-> "inv_pack", Pack_Size |-> cell, Use_Split |-> split, done |-> FALSE,
       out |-> None] : cell \in PackCells, split \in BOOLEAN }
    \cup
    { [op |-> "generate_sku_parts", product_name |-> name, done |-> FALSE,
       out |-> None] : name \in SkuNames }

InitCalc ==
    /\ po = NoPo
    /\ http = NoHttp
    /\ calc \in Calls
    /\ line_items = <<>>
    /\ matrix_data = <<>>
    /\ upload_data = <<>>
    /\ upload_generated = FALSE
    /\ st_errors = <<>>
    /\ shopify_store = <<>>
    /\ sheets = NoSheets
    /\ cin7_products = <<>>
    /\ cin7_families = <<>>
    /\ today_str = Today
    /\ sync = NoSync

\* a call of calculate_sell_price
CallSellPrice ==
    /\ UNCHANGED <<po, http>>
    /\ calc.op = "calculate_sell_price" /\ ~calc.done
    /\ calc' = [calc EXCEPT !.done = TRUE,
                            !.out = calculate_sell_price(calc.cost, calc.product_type,
                                                         calc.fmt, calc.tie_up)]
    /\ UNCHANGED <<line_items, matrix_data, upload_data, upload_generated, st_errors,
                   shopify_store, sheets, cin7_products, cin7_families, today_str,
                   sync>>

\* lines 998-1014: the pack and the volume check on one variant title
CallVariantCheck ==
    /\ UNCHANGED <<po, http>>
    /\ calc.op = "variant_check" /\ ~calc.done
    /\ calc' = [calc EXCEPT !.done = TRUE,
                            !.out = [pack_ok |-> PackOk(calc.inv_pack, calc.v_title),
                                     vol_ok |-> VolOk(calc.inv_vol, calc.v_title)]]
    /\ UNCHANGED <<line_items, matrix_data, upload_data, upload_generated, st_errors,
                   shopify_store, sheets, cin7_products, cin7_families, today_str,
                   sync>>

\* lines 935-946: the pack token of one invoice line
CallInvPack ==
    /\ UNCHANGED <<po, http>>
    /\ calc.op = "inv_pack" /\ ~calc.done
    /\ calc' = [calc EXCEPT !.done = TRUE, !.out = InvPack(calc)]
    /\ UNCHANGED <<line_items, matrix_data, upload_data, upload_generated, st_errors,
                   shopify_store, sheets, cin7_products, cin7_families, today_str,
                   sync>>

\* a call of generate_sku_parts
CallSkuParts ==
    /\ UNCHANGED <<po, http>>
    /\ calc.op = "generate_sku_parts" /\ ~calc.done
    /\ calc' = [calc EXCEPT !.done = TRUE, !.out = generate_sku_parts(calc.product_name)]
    /\ UNCHANGED <<line_items, matrix_data, upload_data, upload_generated, st_errors,
                   shopify_store, sheets, cin7_products, cin7_families, today_str,
                   sync>>

NextCalc ==
    \/ CallSellPrice
    \/ CallVariantCheck
    \/ CallInvPack
    \/ CallSkuParts

SpecCalc == InitCalc /\ [][NextCalc]_vars

----------------------------------------------------------------------------
(* Properties of the functions.                                            *)

\* out is a number of at most 2 decimals within half a cent of d
IsRounded2(out, d) ==
    LET k == IF d.k > 2 THEN d.k ELSE 2
        o == out.m * Pow10(k - out.k)
        e == d.m * Pow10(k - d.k)
        half == 5 * Pow10(k - 3)
    IN  /\ out.k <= 2
        /\ IF k = 2 THEN o = e ELSE (o - e <= half /\ e - o <= half)

\* C11: for a cost above 0 the price is, rounded to 2 decimals, cost + 40 for a
\* draft format costing more than 140, else cost + 20 for a draft format costing
\* less than 63, else cost x 1.265 for a Core Product, else cost x 1.285; a draft
\* cost of exactly 63 or 140 gets the multiplier.
C11_SellPriceRules ==
    (calc.op = "calculate_sell_price" /\ calc.done /\ calc.cost.m > 0) =>
        LET cost == calc.cost
            scaled == cost.m
            unit == Pow10(cost.k)
            is_draft == \E t \in DraftTriggers : Contains(Lower(calc.fmt), t)
            value == IF is_draft /\ scaled > 140 * unit THEN DecAdd(cost, DecOf(40))
                     ELSE IF is_draft /\ scaled < 63 * unit THEN DecAdd(cost, DecOf(20))
                     ELSE IF calc.product_type = "Core Product"
                     THEN DecMul(cost, Dec(1265, 3))
                     ELSE DecMul(cost, Dec(1285, 3))
        IN  IsRounded2(calc.out, value)

\* a keg costing exactly 140 was priced at 140 x 1.285 = 179.9, not at 180
C11_Witness ==
    /\ calc.op = "calculate_sell_price" /\ calc.done
    /\ calc.cost = Dec(140, 0)
    /\ calc.fmt = "Steel Keg"
    /\ calc.product_type = "Rotational Product"
    /\ calc.out = Dec(1799, 1)

\* C12: for a cost of 0 or less the price is 0.00, whatever the product type
\* and the format.
C12_NonPositiveCostGivesZero ==
    (calc.op = "calculate_sell_price" /\ calc.done /\ calc.cost.m <= 0)
    => calc.out.m = 0

\* the title carries a pack multiplier: a digit followed by "x" or by " x"
HasMultiplier(v_title) ==
    \E i \in 1..Len(v_title) :
        /\ IsDigit(CharAt(v_title, i))
        /\ \/ i + 1 <= Len(v_title) /\ SubSeq(v_title, i + 1, i + 1) = "x"
           \/ i + 2 <= Len(v_title) /\ SubSeq(v_title, i + 1, i + 2) = " x"

\* C13: the pack check passes for the pack token "1" only on a title that carries
\* no pack multiplier, and for a token P other than "1" only on a title that
\* contains "P x" or "Px".
C13_PackCheck ==
    (calc.op = "variant_check" /\ calc.done /\ calc.out.pack_ok) =>
        IF calc.inv_pack = "1"
        THEN ~HasMultiplier(calc.v_title)
        ELSE \/ Contains(calc.v_title, calc.inv_pack \o " x")
             \/ Contains(calc.v_title, calc.inv_pack \o "x")

\* C14: the volume check passes exactly when the token is a substring of the
\* title, or has 2 characters and is a substring when followed by "0", or is
\* "9", "40" or "41" with "firkin" in the title, or is "4", "4.5", "20" or "21"
\* with "pin" in the title.
C14_VolumeCheck ==
    (calc.op = "variant_check" /\ calc.done) =>
        LET vol == calc.inv_vol
            t == calc.v_title
        IN  calc.out.vol_ok <=>
                \/ Contains(t, vol)
                \/ Len(vol) = 2 /\ Contains(t, vol \o "0")
                \/ vol \in {"9", "40", "41"} /\ Contains(t, "firkin")
                \/ vol \in {"4", "4.5", "20", "21"} /\ Contains(t, "pin")

\* a pin was accepted for the volume token 20, which its title does not contain
C14_Witness ==
    /\ calc.op = "variant_check" /\ calc.done
    /\ calc.inv_vol = "20"
    /\ calc.v_title = "pin"
    /\ calc.out.vol_ok

----------------------------------------------------------------------------
(* Further properties of the matcher.                                      *)

\* C15: a line whose format names cask or firkin is never matched to a variant
\* of a candidate whose format metadata and title together mention "keg" and
\* do not mention "cask".
C15_CaskNeverMatchesKeg ==
    \A i \in CheckedRows :
        LET row == line_items[i]
            inv_fmt == Lower(row.Format)
        IN  (/\ Contains(inv_fmt, "cask") \/ Contains(inv_fmt, "firkin")
             /\ row.Shopify_Status = StatusMatch)
            => \A n \in 1..Len(SnapshotOf(row)) :
                   LET c == SnapshotOf(row)[n]
                       text == Lower(c.format_meta \o " " \o c.title)
                   IN  \A j \in 1..Len(c.variants) :
                           ResultNames(row, c, j)
                           => ~(Contains(text, "keg") /\ ~Contains(text, "cask"))

\* C16: the pack token is "1" for a blank, "none" or "0" pack size; otherwise it
\* is the parsed pack count, halved when the split-case flag is set and the
\* count is greater than 1, unchanged otherwise.
C16_PackToken ==
    (calc.op = "inv_pack" /\ calc.done) =>
        LET raw == Strip(calc.Pack_Size)
            count == FloatOf(raw)
        IN  calc.out = IF raw = "" \/ Lower(raw) = "none" \/ raw = "0"
                       THEN "1"
                       ELSE IF calc.Use_Split /\ count.m > Pow10(count.k)
                       THEN DecToken(DecHalf(count))
                       ELSE DecToken(count)

\* C17: the match comes from a qualifying candidate such that no qualifying
\* candidate scores strictly higher, wherever it stands in the catalog's list,
\* and none of the same score stands earlier in that list.
C17_TieBreakByInputOrder ==
    \A i \in CheckedRows :
        LET row == line_items[i]
            snapshot == SnapshotOf(row)
            Q == QualifyingPairs(row, snapshot)
            score(n) == Score(row.Product_Name, snapshot[n])
        IN  row.Shopify_Status = StatusMatch =>
                \E p \in Q :
                    /\ ResultNames(row, snapshot[p[1]], p[2])
                    /\ \A q \in Q :
                          \/ score(q[1]) < score(p[1])
                          \/ score(q[1]) = score(p[1]) /\ p[1] <= q[1]

\* two qualifying candidates of the same score, and the first one matched
C17_Witness ==
    \E i \in CheckedRows :
        LET row == line_items[i]
            snapshot == SnapshotOf(row)
        IN  /\ row.Shopify_Status = StatusMatch
            /\ Len(snapshot) = 2
            /\ Score(row.Product_Name, snapshot[1]) = Score(row.Product_Name, snapshot[2])
            /\ Qualifies(row, snapshot, 1, 1)
            /\ Qualifies(row, snapshot, 2, 1)
            /\ snapshot[1].variants[1].sku # snapshot[2].variants[1].sku
            /\ ResultNames(row, snapshot[1], 1)
            /\ row.London_SKU # ""

----------------------------------------------------------------------------
(* Further properties of generation.                                       *)

\* the number of the first connector rule that applies to a format text
FirstRule(fmt) ==
    LET f == Lower(fmt)
        applies == [r \in 1..5 |->
                      CASE r = 1 -> Contains(f, "dolium") /\ Contains(f, "us")
                        [] r = 2 -> Contains(f, "poly")
                        [] r = 3 -> Contains(f, "key")
                        [] r = 4 -> Contains(f, "steel")
                        [] r = 5 -> TRUE]
    IN  CHOOSE r \in 1..5 : applies[r] /\ \A q \in 1..(r - 1) : ~applies[q]

\* the connector set the rules give to a format text
ClaimedConnectors(fmt) ==
    CASE FirstRule(fmt) = 1 -> <<"US Sankey D-Type Coupler">>
      [] FirstRule(fmt) = 2 -> <<"Sankey Coupler", "KeyKeg Coupler">>
      [] FirstRule(fmt) = 3 -> <<"KeyKeg Coupler">>
      [] FirstRule(fmt) = 4 -> <<"Sankey Coupler">>
      [] FirstRule(fmt) = 5 -> <<"">>

\* what follows the Family_SKU in the Variant_SKU of a generated row
AfterFamily(r) == SubSeq(r.Variant_SKU, Len(r.Family_SKU) + 1, Len(r.Variant_SKU))

\* C18: a generation gives each configuration of a row the connectors of the
\* first rule that applies to the row's format, in the rule's order; a row with
\* the empty connector has a variant name without " - " and a variant SKU with
\* the size part alone after the family SKU.
C18_ConnectorRules ==
    [][GenerateUploadData =>
        LET in == upload_data
            out == upload_data'
        IN  \A i \in 1..Len(in) :
                LET claimed == ClaimedConnectors(in[i].format)
                    first == ClaimedOffset(in, i)
                    last == ClaimedOffset(in, i + 1)
                IN  /\ (last - first) % Len(claimed) = 0
                    /\ last <= Len(out)
                    /\ \A n \in (first + 1)..last :
                          LET conn == claimed[((n - first - 1) % Len(claimed)) + 1]
                          IN  /\ out[n].Keg_Connector = conn
                              /\ conn = "" =>
                                    /\ ~Contains(out[n].Variant_Name, " - ")
                                    /\ SubSeq(AfterFamily(out[n]), 1, 1) = "-"
                                    /\ ~Contains(SubSeq(AfterFamily(out[n]), 2,
                                                        Len(AfterFamily(out[n]))), "-")
    ]_vars

\* a generated row whose format falls under two rules and took the earlier one,
\* next to a generated row without a connector
C18_Witness ==
    /\ upload_generated
    /\ \E n \in 1..Len(upload_data) :
          /\ Contains(Lower(upload_data[n].format), "steel")
          /\ Contains(Lower(upload_data[n].format), "key")
          /\ upload_data[n].Keg_Connector = "KeyKeg Coupler"
    /\ \E n \in 1..Len(upload_data) :
          /\ upload_data[n].Keg_Connector = ""
          /\ ~Contains(upload_data[n].Variant_Name, " - ")

\* the positions of the rows a generation emits for the row at position i
BlockOf(data, i) == (ClaimedOffset(data, i) + 1)..ClaimedOffset(data, i + 1)

\* C19: in one generation the rows emitted for two different staged rows never
\* have the same Family_SKU, whatever codes the two staged rows share.
C19_FamilySkusDistinct ==
    [][GenerateUploadData =>
        LET in == upload_data
            out == upload_data'
        IN  \A i, j \in 1..Len(in) :
                i # j =>
                    \A n \in BlockOf(in, i) : \A m \in BlockOf(in, j) :
                        /\ n <= Len(out)
                        /\ m <= Len(out)
                        /\ out[n].Family_SKU # out[m].Family_SKU
    ]_vars

\* generated rows of two families with one supplier, one product and one format
C19_Witness ==
    /\ upload_generated
    /\ \E n, m \in 1..Len(upload_data) :
          /\ upload_data[n].untappd_brewery = upload_data[m].untappd_brewery
          /\ upload_data[n].untappd_product = upload_data[m].untappd_product
          /\ upload_data[n].format = upload_data[m].format
          /\ upload_data[n].Family_SKU # upload_data[m].Family_SKU
          /\ upload_data[n].Family_SKU # ""
          /\ upload_data[m].Family_SKU # ""

----------------------------------------------------------------------------
(* Properties of generate_sku_parts.                                       *)

\* text is base followed by as many "X" as bring it to four characters
IsPaddedTo4(text, base) ==
    /\ Len(text) = 4
    /\ Len(base) <= 4
    /\ SubSeq(text, 1, Len(base)) = base
    /\ \A k \in (Len(base) + 1)..4 : CharAt(text, k) = "X"

\* C20: the code of a product name has exactly 4 characters and follows from the
\* words of the cleaned, upper-cased name: the first letters of the first 4 words
\* when there are 4 or more, the first 2 letters of each of the first 2 words
\* padded with X when there are 2 or 3, the first 2 letters of the only word
\* padded with X, and XXXX when there is no word.
C20_SkuParts ==
    (calc.op = "generate_sku_parts" /\ calc.done) =>
        LET words == Words(CleanName(calc.product_name))
            n == Len(words)
        IN  /\ Len(calc.out) = 4
            /\ n >= 4 => \A k \in 1..4 : CharAt(calc.out, k) = CharAt(words[k], 1)
            /\ n \in {2, 3} =>
                  IsPaddedTo4(calc.out, Prefix(words[1], 2) \o Prefix(words[2], 2))
            /\ n = 1 => IsPaddedTo4(calc.out, Prefix(words[1], 2))
            /\ n = 0 => calc.out = "XXXX"
            /\ calc.product_name = "Hazy Pale Ale" => calc.out = "HAPA"
            /\ calc.product_name = "IPA" => calc.out = "IPXX"
            /\ calc.product_name = "Triple Hop Citra Pale" => calc.out = "THCP"

\* the code of a name of three words has been computed
C20_Witness ==
    /\ calc.op = "generate_sku_parts"
    /\ calc.done
    /\ calc.product_name = "Hazy Pale Ale"
    /\ calc.out = "HAPA"

----------------------------------------------------------------------------
(* A further property of the match result.                                 *)

\* a SKU with its first two characters removed
DropTwo(sku) == SubSeq(sku, 3, Len(sku))

\* C21: a matched row has London_SKU = "L-" + s and Gloucester_SKU = "G-" + s for
\* s the SKU of the matched variant without its first two characters, and every
\* row has both location SKUs empty or both non-empty.
C21_LocationSkusShareBase ==
    \A i \in CheckedRows :
        LET row == line_items[i]
            snapshot == SnapshotOf(row)
        IN  /\ (row.London_SKU = "") <=> (row.Gloucester_SKU = "")
            /\ row.Shopify_Status = StatusMatch =>
                  \E p \in QualifyingPairs(row, snapshot) :
                      LET c == snapshot[p[1]]
                          s == DropTwo(Strip(c.variants[p[2]].sku))
                      IN  /\ row.Matched_Product = MatchedProdName(c.title)
                          /\ row.Matched_Variant = c.variants[p[2]].title
                          /\ row.London_SKU = "L-" \o s
                          /\ row.Gloucester_SKU = "G-" \o s

----------------------------------------------------------------------------
(* Tab 5: prepare_final_po_lines, create_cin7_purchase_order and the       *)
(* "Export PO to Cin7" button, over invoices of several lines.             *)

\* lines 336-347: the quantity and the cost of one purchase-order row
PoQty(row) ==
    IF row.Use_Split THEN DecMul(FloatOf(row.Quantity), DecOf(2)) ELSE FloatOf(row.Quantity)

PoCost(row) ==
    IF row.Use_Split THEN DecHalf(FloatOf(row.Item_Price)) ELSE FloatOf(row.Item_Price)

\* lines 353-362: the purchase-order row of one matched invoice row
PoRow(row) ==
    [Product |-> row.Product_Name, Variant_Match |-> row.Matched_Variant,
     PO_Qty |-> PoQty(row), PO_Cost |-> PoCost(row),
     Total |-> DecMul(PoQty(row), PoCost(row)),
     Notes |-> IF row.Use_Split THEN "Split Case (Half Size)" ELSE "",
     Cin7_London_ID |-> row.Cin7_London_ID, Cin7_Glou_ID |-> row.Cin7_Glou_ID]

\* lines 315-364
prepare_final_po_lines(line_items_df) ==
    LET matched == SelectSeq(line_items_df, LAMBDA row : row.Shopify_Status = StatusMatch)
    IN  [k \in 1..Len(matched) |-> PoRow(matched[k])]

\* line 819
IdCol(row, location_choice) ==
    IF location_choice = "London" THEN row.Cin7_London_ID ELSE row.Cin7_Glou_ID

\* line 826: pd.notna(prod_id) and str(prod_id).strip()
HasProductId(prod_id) == prod_id # None /\ Strip(prod_id) # ""

\* lines 829-842: the order line of one purchase-order row
OrderLine(row, location_choice, tie_up) ==
    [ProductID |-> IdCol(row, location_choice), Quantity |-> row.PO_Qty,
     Price |-> row.PO_Cost, Total |-> DecRound2(DecMul(row.PO_Qty, row.PO_Cost), tie_up)]

\* lines 817-842
OrderLines(lines_df, location_choice, tie_up) ==
    LET valid == SelectSeq(lines_df, LAMBDA row : HasProductId(IdCol(row, location_choice)))
    IN  [k \in 1..Len(valid) |-> OrderLine(valid[k], location_choice, tie_up)]

\* the most lines of an invoice
MaxLines == 4

\* the lines of the invoices: a steel keg the ERP knows, a keyKeg of another ABV,
\* a steel keg ticked as split, and a case of cans ordered as two half cases
OrderLineKinds ==
    { [InvoiceLine(Vendor, "Steel Keg", "1", "30L", FALSE) EXCEPT !.Quantity = "3"],
      [InvoiceLine(Vendor, "KeyKeg", "1", "30L", FALSE) EXCEPT !.ABV = "6"],
      InvoiceLine(Vendor, "Steel Keg", "1", "30L", TRUE),
      [InvoiceLine(Vendor, "Can", "24", "330ml", TRUE) EXCEPT !.Item_Price = "48"] }

Invoices == UNION { [1..n -> OrderLineKinds] : n \in 1..MaxLines }

Listed(shape) ==
    [title |-> shape.title, format_meta |-> shape.format_meta, keg_meta |-> shape.keg_meta,
     variants |-> shape.variants, ratio |-> [n \in ProductNames |-> 80]]

SteelKegProduct ==
    Listed([title |-> KegTitle, format_meta |-> "Keg", keg_meta |-> "Steel",
            variants |-> <<Variant("30 Litre", "L-EBTP30S")>>])

KeyKegProduct ==
    Listed([title |-> KegTitle, format_meta |-> "Keg", keg_meta |-> "KeyKeg",
            variants |-> <<Variant("30 Litre", "L-EBTP30K")>>])

CanProduct ==
    Listed([title |-> "G-Example Brew Co / Test Pale Ale / 5% / Can", format_meta |-> "Can",
            keg_meta |-> "",
            variants |-> <<Variant("12 x 330ml", "G-EBTP12C"), Variant("24 x 330ml", "G-EBTP24C")>>])

\* the vendor's catalog: unknown vendor, steel kegs only, or all three products
OrderCatalogs == { <<>>, <<SteelKegProduct>>, <<SteelKegProduct, KeyKegProduct, CanProduct>> }

InitOrder ==
    /\ line_items \in Invoices
    /\ shopify_store \in { [v \in {Vendor} |-> c] : c \in OrderCatalogs }
    /\ cin7_products \in Cin7Snapshots
    /\ matrix_data = <<>>
    /\ upload_data = <<>>
    /\ upload_generated = FALSE
    /\ st_errors = <<>>
    /\ sheets = NoSheets
    /\ cin7_families = <<>>
    /\ today_str = Today
    /\ calc = NoCalc
    /\ sync = NoSync
    /\ po = NoPo
    /\ http = NoHttp

\* lines 1495-1497
all_matched == \A i \in 1..Len(line_items) : line_items[i].Shopify_Status = StatusMatch

\* the header's supplier as lines 806-812 resolve it
SupplierIds == {None, "supplier1"}

\* the outcomes of the POST /advanced-purchase request: the HTTP status of the
\* response and the ID of its body, or an exception
HeaderResponses ==
    { [status |-> "200", ID |-> "task1"], [status |-> "200", ID |-> None],
      [status |-> "500", ID |-> None], [status |-> "500", ID |-> "task1"],
      [status |-> "exception", ID |-> None] }

\* the outcomes of the POST /purchase/order request
LinesResponses == {"200", "500", "exception"}

\* a header response taken as accepted whatever its status
HeaderAcceptedAnyStatus(r1) == r1.status # "exception"

\* line 863: r1.status_code == 200
HeaderAccepted(r1) == r1.status = "200"

PoDone(call, success, msg) == [call EXCEPT !.pc = "done", !.success = success, !.msg = msg]

\* lines 1938-2023 and 802-846: the "Export PO to Cin7" button up to the first
\* request of create_cin7_purchase_order
ExportPO ==
    /\ po.pc \in {"idle", "done"}
    /\ line_items # <<>>
    /\ all_matched
    /\ prepare_final_po_lines(line_items) # <<>>
    /\ \E location_choice \in {"London", "Gloucester"}, supplier_id \in SupplierIds,
          tie_up \in BOOLEAN :
          LET lines_df == prepare_final_po_lines(line_items)
              order_lines == OrderLines(lines_df, location_choice, tie_up)
              call == [pc |-> "header", location |-> location_choice,
                       supplier_id |-> supplier_id, lines_df |-> lines_df,
                       order_lines |-> order_lines, requests |-> <<>>,
                       r1 |-> None, r2 |-> None, task_id |-> None,
                       success |-> FALSE, msg |-> ""]
          IN  po' = IF supplier_id = None THEN PoDone(call, FALSE, "Supplier not linked.")
                    ELSE IF order_lines = <<>>
                         THEN PoDone(call, FALSE, "No valid lines found to export.")
                         ELSE call
    /\ UNCHANGED <<line_items, matrix_data, upload_data, upload_generated, st_errors,
                   shopify_store, sheets, cin7_products, cin7_families, today_str, sync,
                   calc, http>>

\* lines 848-867: the header request and its outcome
PoHeaderRequest ==
    /\ po.pc = "header"
    /\ \E r1 \in HeaderResponses :
          LET sent == [po EXCEPT
                          !.requests = Append(@, [url |-> "/advanced-purchase",
                                                  SupplierID |-> po.supplier_id,
                                                  Location |-> po.location]),
                          !.r1 = r1.status]
          IN  po' = IF r1.status = "exception" THEN PoDone(sent, FALSE, "Header Ex")
                    ELSE IF ~HeaderAccepted(r1) THEN PoDone(sent, FALSE, "Header Error")
                    ELSE IF r1.ID = None THEN PoDone(sent, FALSE, "Unknown Error")
                    ELSE [sent EXCEPT !.pc = "lines", !.task_id = r1.ID]
    /\ UNCHANGED <<line_items, matrix_data, upload_data, upload_generated, st_errors,
                   shopify_store, sheets, cin7_products, cin7_families, today_str, sync,
                   calc, http>>

\* lines 869-884: the lines request and its outcome
PoLinesRequest ==
    /\ po.pc = "lines"
    /\ \E r2 \in LinesResponses :
          LET sent == [po EXCEPT
                          !.requests = Append(@, [url |-> "/purchase/order",
                                                  TaskID |-> po.task_id,
                                                  Lines |-> po.order_lines]),
                          !.r2 = r2]
          IN  po' = IF r2 = "200" THEN PoDone(sent, TRUE, "PO Created! ID: " \o po.task_id)
                    ELSE IF r2 = "exception" THEN PoDone(sent, FALSE, "Lines Ex")
                    ELSE PoDone(sent, FALSE, "Line Error")
    /\ UNCHANGED <<line_items, matrix_data, upload_data, upload_generated, st_errors,
                   shopify_store, sheets, cin7_products, cin7_families, today_str, sync,
                   calc, http>>

\* the page runs one handler at a time
NextOrder ==
    \/ po.pc \in {"idle", "done"} /\ CheckInventory
    \/ ExportPO
    \/ PoHeaderRequest
    \/ PoLinesRequest

SpecOrder == InitOrder /\ [][NextOrder]_vars

----------------------------------------------------------------------------
(* Properties of the product matrix and of the purchase order.             *)

\* the lines that are not matched
UnmatchedLines == { i \in 1..Len(line_items) : line_items[i].Shopify_Status # StatusMatch }

\* the format slots of the matrix that hold the content of line i under its key
SlotsHolding(i) ==
    { p \in (1..Len(matrix_data)) \X (1..MaxSlots) :
        /\ GroupKey(matrix_data[p[1]]) = GroupKey(line_items[i])
        /\ matrix_data[p[1]].slots[p[2]] = SlotOf(line_items[i]) }

\* the unmatched lines with the key and the content of line i
UnmatchedLike(i) ==
    { j \in UnmatchedLines :
        /\ GroupKey(line_items[j]) = GroupKey(line_items[i])
        /\ SlotOf(line_items[j]) = SlotOf(line_items[i]) }

\* C22: after a check, every unmatched line has exactly one matrix row of its
\* key, and the matrix holds each line content under each key in as many format
\* slots as there are unmatched lines of that key and content (none for a
\* content that only matched lines have), however many lines share a key.
C22_NoUnmatchedLineLost ==
    (line_items # <<>> /\ CheckedRows = 1..Len(line_items)) =>
        /\ \A i \in UnmatchedLines :
              Cardinality({ g \in 1..Len(matrix_data) :
                              GroupKey(matrix_data[g]) = GroupKey(line_items[i]) }) = 1
        /\ \A i \in 1..Len(line_items) :
              Cardinality(SlotsHolding(i)) = Cardinality(UnmatchedLike(i))

\* the matched lines, in the order of the invoice
MatchedLines == SelectSeq(line_items, LAMBDA row : row.Shopify_Status = StatusMatch)

\* C23: when an export has succeeded, the lines request carried one order line
\* for each matched invoice line, in order, with the line's product ID of the
\* chosen location, and nothing else.
C23_OrderLinesAreMatchedLines ==
    (po.pc = "done" /\ po.success) =>
        LET sent == po.requests[Len(po.requests)].Lines
        IN  /\ Len(sent) = Len(MatchedLines)
            /\ \A k \in 1..Len(sent) :
                  k <= Len(MatchedLines)
                  => sent[k].ProductID = IdCol(MatchedLines[k], po.location)

\* the match of the row was made against half of its pack (lines 942-944)
MatchedOnHalfPack(row) == row.Use_Split /\ DecGreater(PackVal(row), 1)

\* C26: a successful export has prepared a line with doubled quantity and halved
\* cost exactly when the line was matched against its halved pack; a line matched
\* against its full pack is ordered with the quantity and the cost of the invoice.
C26_SplitConsistent ==
    (po.pc = "done" /\ po.success /\ Len(po.lines_df) = Len(MatchedLines)) =>
        \A k \in 1..Len(MatchedLines) :
            LET row == MatchedLines[k]
                qty == FloatOf(row.Quantity)
                cost == FloatOf(row.Item_Price)
            IN  IF MatchedOnHalfPack(row)
                THEN /\ po.lines_df[k].PO_Qty = DecMul(qty, DecOf(2))
                     /\ DecMul(po.lines_df[k].PO_Cost, DecOf(2)) = cost
                ELSE /\ po.lines_df[k].PO_Qty = qty
                     /\ po.lines_df[k].PO_Cost = cost

\* the positions in the call's request list of the requests to a URL
RequestsTo(url) == { n \in 1..Len(po.requests) : po.requests[n].url = url }

\* C28: the header request is sent only with a resolved supplier and an order
\* line for the chosen location; the lines request is sent only after a header
\* response of status 200 with a task ID, and carries that ID; success is
\* reported only when both requests were answered 200; a call that ends
\* otherwise reports failure and has sent nothing after the step that failed.
C28_PurchaseOrderRequests ==
    po.pc # "idle" =>
        LET header == RequestsTo("/advanced-purchase")
            lines == RequestsTo("/purchase/order")
            some_id == \E k \in 1..Len(po.lines_df) :
                           HasProductId(IdCol(po.lines_df[k], po.location))
        IN  /\ header \cup lines = 1..Len(po.requests)
            /\ header # {} => (po.supplier_id # None /\ some_id /\ header = {1})
            /\ lines # {} =>
                  /\ lines = {2}
                  /\ header = {1}
                  /\ po.r1 = "200"
                  /\ po.task_id # None
                  /\ po.requests[2].TaskID = po.task_id
            /\ po.pc = "done" =>
                  /\ po.success <=> (po.r1 = "200" /\ po.r2 = "200")
                  /\ (po.supplier_id = None \/ ~some_id) => po.requests = <<>>
                  /\ (po.r1 # "200" \/ po.task_id = None) => lines = {}

\* an export has succeeded after both requests, the second with the task ID
C28_Witness ==
    /\ po.pc = "done"
    /\ po.success
    /\ Len(po.requests) = 2
    /\ po.requests[2].TaskID = "task1"

----------------------------------------------------------------------------
(* Properties of the session over repeated presses.                        *)

\* C24: a press of "Generate Upload Data" on data that is already generated
\* leaves the number of rows and every row's Family_SKU, Variant_SKU, pack size
\* and cost as they were.
C24_GenerateIdempotent ==
    [][(GenerateUploadData /\ upload_generated) =>
        /\ Len(upload_data') = Len(upload_data)
        /\ \A n \in 1..Len(upload_data) :
              n <= Len(upload_data') =>
                  /\ upload_data'[n].Family_SKU = upload_data[n].Family_SKU
                  /\ upload_data'[n].Variant_SKU = upload_data[n].Variant_SKU
                  /\ FloatOf(upload_data'[n].pack_size) = FloatOf(upload_data[n].pack_size)
                  /\ FloatOf(upload_data'[n].item_price) = FloatOf(upload_data[n].item_price)
    ]_vars

----------------------------------------------------------------------------
(* The pack count of the matched variant.                                  *)

\* the pack count a lower-cased variant title states: the number in front of
\* "x" or " x" at its start, and 1 when the title starts with no multiplier
StatedPack(v_title) ==
    LET a == DigitRun(v_title, 1)
        rest == SubSeq(v_title, a + 1, Len(v_title))
    IN  IF a > 0 /\ (StartsWith(rest, "x") \/ StartsWith(rest, " x"))
        THEN SubSeq(v_title, 1, a)
        ELSE "1"

\* C25: the title of the variant a row is matched to states the pack count of
\* the row's normalized pack.
C25_MatchedPackEqual ==
    \A i \in CheckedRows :
        LET row == line_items[i]
        IN  row.Shopify_Status = StatusMatch
            => StatedPack(Lower(row.Matched_Variant)) = InvPack(row)

----------------------------------------------------------------------------
(* The order of the requests of sync_product_to_cin7.                      *)

\* the run has moved from family f at location loc to what follows it
MovedOn(s, t) ==
    IF s.loc = "L" THEN t.pc = "family" /\ t.f = s.f /\ t.loc = "G"
    ELSE IF s.f < Len(s.keys) THEN t.pc = "family" /\ t.f = s.f + 1 /\ t.loc = "L"
    ELSE t.pc = "idle"

\* the ERP holds a family of the given ID under the SKU or the name of the
\* current family at the current location
FamilyObtained(families, s, fam_id) ==
    \E i \in 1..Len(families) :
        /\ families[i].ID = fam_id
        /\ \/ Lower(families[i].SKU) = Lower(LocPrefix(s.loc) \o s.keys[s.f])
           \/ Lower(families[i].Name)
                 = Lower(LocPrefix(s.loc) \o Group(upload_data, s.keys[s.f])[1].Family_Name)

\* C27: variant requests are made only with a family ID obtained for the current
\* family and location; a family step that obtains no ID creates and links no
\* product and moves on to the next location or family; a family step that
\* obtains one starts the variants of the same family and location.
C27_VariantsAfterFamily ==
    [][/\ SyncVariant =>
             /\ sync.fam_id # None
             /\ FamilyObtained(cin7_families, sync, sync.fam_id)
       /\ SyncFamilyNode =>
             IF sync'.pc = "variant" /\ sync'.f = sync.f /\ sync'.loc = sync.loc
             THEN /\ sync'.fam_id # None
                  /\ sync'.r = 1
                  /\ FamilyObtained(cin7_families', sync, sync'.fam_id)
             ELSE /\ MovedOn(sync, sync')
                  /\ cin7_products' = cin7_products
                  /\ cin7_families' = cin7_families
    ]_vars

\* a first run on an empty ERP has gone on to Gloucester after the London family
\* could be neither found nor created
C27_Witness ==
    /\ sync.pc = "family"
    /\ sync.loc = "G"
    /\ sync.runs = 1
    /\ sync.failures = 1
    /\ cin7_families = <<>>
    /\ cin7_products = <<>>

----------------------------------------------------------------------------
(* The session from "Process Invoice" to "Generate Upload Data".           *)

\* the line items "Process Invoice" extracts: Pending, with no split ticked
SessionInvoices ==
    { <<InvoiceLine(Vendor, "Can", "24", "330ml", FALSE)>>,
      <<InvoiceLine(Vendor, "Steel Keg", "1", "30L", FALSE)>>,
      <<InvoiceLine(Vendor, "PolyKeg", "1", "30L", FALSE),
        [InvoiceLine(Vendor, "Can", "24", "330ml", FALSE) EXCEPT !.ABV = "6"]>> }

\* lines 1272-1285: the session state of a new session
InitSession ==
    /\ line_items = <<>>
    /\ matrix_data = <<>>
    /\ upload_data = <<>>
    /\ upload_generated = FALSE
    /\ st_errors = <<>>
    /\ shopify_store \in { [v \in {Vendor} |-> c] : c \in OrderCatalogs }
    /\ sheets \in SheetSnapshots
    /\ cin7_products \in Cin7Snapshots
    /\ cin7_families = <<>>
    /\ today_str = Today
    /\ calc = NoCalc
    /\ sync = NoSync
    /\ po = NoPo
    /\ http = NoHttp

\* lines 1451-1476: the "Process Invoice" button
ProcessInvoice ==
    /\ line_items' \in SessionInvoices
    /\ matrix_data' = <<>>
    /\ upload_data' = <<>>
    /\ upload_generated' = FALSE
    /\ UNCHANGED <<st_errors, shopify_store, sheets, cin7_products, cin7_families,
                   today_str, sync, calc, po, http>>

\* lines 162-193: one matrix row after batch_untappd_lookup, found or not, with
\* the style the search or the user's edit in tab 3 gives it
Looked(row, found, style) ==
    IF row.Untappd_Status = "Found" THEN row
    ELSE IF found
    THEN [row EXCEPT !.Untappd_Status = "Found", !.Untappd_Brewery = row.Supplier_Name,
                     !.Untappd_Product = row.Product_Name, !.Untappd_ABV = row.ABV,
                     !.Untappd_Style = style, !.Untappd_Desc = "A pale ale"]
    ELSE [row EXCEPT !.Untappd_Status = "Not Found", !.Untappd_Brewery = "",
                     !.Untappd_Product = "", !.Untappd_ABV = "", !.Untappd_Style = "",
                     !.Untappd_Desc = ""]

\* lines 1613-1622: the "Search Untappd Details" button
SearchUntappd ==
    /\ matrix_data # <<>>
    /\ \E found \in BOOLEAN, style \in {"IPA", ""} :
          matrix_data' = [i \in 1..Len(matrix_data) |-> Looked(matrix_data[i], found, style)]
    /\ UNCHANGED <<line_items, upload_data, upload_generated, st_errors, shopify_store,
                   sheets, cin7_products, cin7_families, today_str, sync, calc, po, http>>

NextSession ==
    \/ ProcessInvoice
    \/ CheckInventory
    \/ SearchUntappd
    \/ ValidateAndStage
    \/ GenerateUploadData

SpecSession == InitSession /\ [][NextSession]_vars

\* C29: in every state of the session upload_generated implies that upload_data
\* is non-empty and that each of its rows has a non-empty Family_SKU and
\* Variant_SKU; "Process Invoice" and a staging without errors leave
\* upload_generated false.
C29_GeneratedFlag ==
    /\ [](upload_generated =>
             /\ upload_data # <<>>
             /\ \A n \in 1..Len(upload_data) :
                   /\ upload_data[n].Family_SKU # ""
                   /\ upload_data[n].Variant_SKU # "")
    /\ [][/\ ProcessInvoice => ~upload_generated'
          /\ (ValidateAndStage /\ st_errors' = <<>>) => ~upload_generated']_vars

\* data has been generated in a session that started with an invoice
C29_Witness ==
    /\ upload_generated
    /\ line_items # <<>>
    /\ upload_data # <<>>
    /\ upload_data[1].Variant_SKU # ""

----------------------------------------------------------------------------
(* make_cin7_request, lines 209-225: one step per HTTP attempt and per      *)
(* sleep.                                                                   *)

\* line 211
max_retries == 6

\* what one attempt can end in: a response with its status, or an exception
AttemptOutcomes == {"200", "500", "429", "exception"}

\* a test that also retries after a server error
RateLimitedOrServerError(status_code) == status_code \in {"429", "500"}

\* line 216: the test on the response's status
RateLimited(status_code) == status_code = "429"

\* line 222: the test that ends the retries after an exception
LastAttempt(attempt) == attempt = max_retries - 1

InitRequest ==
    /\ http = NoHttp
    /\ po = NoPo
    /\ line_items = <<>>
    /\ matrix_data = <<>>
    /\ upload_data = <<>>
    /\ upload_generated = FALSE
    /\ st_errors = <<>>
    /\ shopify_store = [v \in {Vendor} |-> <<>>]
    /\ sheets \in SheetSnapshots
    /\ cin7_products = {}
    /\ cin7_families = <<>>
    /\ today_str = Today
    /\ calc = NoCalc
    /\ sync = NoSync

\* lines 209-212: a call starts with attempt 0 and a backoff of one second
CallCin7Request ==
    /\ http.pc \in {"idle", "returned", "raised"}
    /\ http' = [pc |-> "request", attempt |-> 0, backoff |-> 1, response |-> None,
                outcomes |-> <<>>, waits |-> <<>>]
    /\ UNCHANGED <<line_items, matrix_data, upload_data, upload_generated, st_errors,
                   shopify_store, sheets, cin7_products, cin7_families, today_str,
                   sync, calc, po>>

\* lines 214-222: one requests.request and what follows it up to the sleep
HttpAttempt ==
    /\ http.pc = "request"
    /\ \E outcome \in AttemptOutcomes :
          http' = IF outcome = "exception"
                  THEN [http EXCEPT !.outcomes = Append(@, outcome),
                                    !.pc = IF LastAttempt(http.attempt)
                                           THEN "raised" ELSE "sleep"]
                  ELSE [http EXCEPT !.outcomes = Append(@, outcome),
                                    !.response = outcome,
                                    !.pc = IF RateLimited(outcome)
                                           THEN "sleep" ELSE "returned"]
    /\ UNCHANGED <<line_items, matrix_data, upload_data, upload_generated, st_errors,
                   shopify_store, sheets, cin7_products, cin7_families, today_str,
                   sync, calc, po>>

\* lines 217-219 and 223-224, then line 213 or line 225: the sleep, the doubled
\* backoff, and the next attempt or the return of the last response
HttpSleep ==
    /\ http.pc = "sleep"
    /\ http' = [http EXCEPT !.waits = Append(@, http.backoff),
                            !.backoff = http.backoff * 2,
                            !.attempt = http.attempt + 1,
                            !.pc = IF http.attempt + 1 < max_retries
                                   THEN "request" ELSE "returned"]
    /\ UNCHANGED <<line_items, matrix_data, upload_data, upload_generated, st_errors,
                   shopify_store, sheets, cin7_products, cin7_families, today_str,
                   sync, calc, po>>

NextRequest ==
    \/ CallCin7Request
    \/ HttpAttempt
    \/ HttpSleep

SpecRequest == InitRequest /\ [][NextRequest]_vars

\* requests.request returns or raises, and time.sleep returns
SpecRequestFair == SpecRequest /\ WF_vars(HttpAttempt) /\ WF_vars(HttpSleep)

InCall == http.pc \in {"request", "sleep"}

Ended == http.pc \in {"returned", "raised"}

\* C30: a call of make_cin7_request ends, after at most max_retries attempts;
\* every attempt that was followed by another ended in a 429 response or an
\* exception, and the waits before the retries are 1, 2, 4, ... seconds; the
\* call returns the response of its last attempt, which is not a 429 response
\* unless it is the response of the last allowed attempt, and it raises only
\* when the last allowed attempt raised.
C30_BoundedRetries ==
    /\ [](InCall => <>Ended)
    /\ [](http.pc # "idle" =>
             /\ Len(http.outcomes) <= max_retries
             /\ \A k \in 1..(Len(http.outcomes) - 1) :
                   http.outcomes[k] \in {"429", "exception"}
             /\ \A k \in 1..Len(http.waits) :
                   http.waits[k] = IF k = 1 THEN 1 ELSE 2 * http.waits[k - 1]
             /\ http.pc = "request" => Len(http.waits) = Len(http.outcomes)
             /\ http.pc = "returned" =>
                   /\ http.response = http.outcomes[Len(http.outcomes)]
                   /\ http.response = "429" => Len(http.outcomes) = max_retries
             /\ http.pc = "raised" =>
                   /\ Len(http.outcomes) = max_retries
                   /\ http.outcomes[max_retries] = "exception")

\* a call that retried after 429 responses and after exceptions and returned
\* the 429 response of its sixth attempt
C30_Witness ==
    /\ http.pc = "returned"
    /\ http.outcomes = <<"429", "exception", "429", "exception", "429", "429">>
    /\ http.waits = <<1, 2, 4, 8, 16, 32>>
    /\ http.response = "429"

============================================================================
